---- MODULE Spec2Model ----
(***************************************************************************)
(* A model of hakkit: the AES-128 primitives, CTR and XTS modes of         *)
(* src/src/crypto/nca.rs, the typed stream reader of src/src/utils.rs and  *)
(* the archive parsers of src/src/formats.  Byte arrays are sequences of   *)
(* numbers in 0..255; index i of the Rust code is index i+1 here.          *)
(***************************************************************************)
EXTENDS Integers, Sequences, FiniteSets, TLC

VARIABLES
  \* a caller of the single-block cipher (aes128_encrypt_block, decrypt_block_ecb)
  aes_pc,      \* "idle", "start", "encrypted" or "decrypted"
  aes_key,     \* the 16-byte key
  aes_block,   \* the 16-byte input block
  aes_cipher,  \* what aes128_encrypt_block returned
  aes_plain,   \* what decrypt_block_ecb returned
  \* a caller of decrypt_section_ctr
  ctr_key,     \* the 16-byte section key
  ctr_counter, \* the caller's 16-byte counter array
  ctr_data,    \* the buffer decrypt_section_ctr rewrites in place
  ctr_orig,    \* the buffer as it was before the first call
  ctr_runs,    \* how many times decrypt_section_ctr has been applied
  \* a caller of decrypt_header
  hdr_pc,      \* "idle", "start" or "done"
  hdr_key,     \* the 32-byte header key
  hdr_plain,   \* the plaintext the encrypted input was made from (<<>> if none)
  hdr_layout,  \* the sector numbering it was encrypted with: "contiguous", "fs_zero", "none"
  hdr_enc,     \* the byte slice handed to decrypt_header
  hdr_out,     \* what decrypt_header did: [tag |-> "none" | "ok" | "panic", out |-> bytes]
  \* a caller of the typed reads of utils.rs on one stream
  io_buf,      \* the bytes of the stream
  io_pos,      \* the stream position
  io_op,       \* the last read: [kind, n |-> bytes it promises, from |-> position before]
  io_res,      \* its result: [tag |-> "none" | "ok" | "err", err |-> variant name]
  io_val,      \* the value it returned (bytes, most significant first for integers)
  \* a caller of Pfs0::parse, Hfs0::parse, Sarc::parse or NczHeader::parse and
  \* of read_file
  ar_kind,     \* "none", "pfs0", "hfs0", "sarc", "ncz", "nca", "blocks", "npdm" or "xci"
  ar_buf,      \* the bytes of the stream
  ar_gen,      \* how the stream was written: [order, shape, serial, names_end, twin],
               \* for a SARC serial being whether its names lie in its name table,
               \* names_end the position after that table and twin the same
               \* content written with the other byte-order mark
  ar_base,     \* the stream position the parser is started at
  ar_pc,       \* "idle", "start" or "parsed"; "loop" and "done" in read_compressed_blocks
  ar_res,      \* the parser's result, [tag |-> "none"] before it ran
  ar_read,     \* the last read_file: [tag, file, start, size, bytes], or the last
               \* section_offset: [tag, section, res]; [tag |-> "none"] before
  ar_view,     \* the view it returned: [pos, limit, got, last], [tag |-> "none"] if none
  \* a caller of sarc_hash
  hash_name,       \* the bytes of the name
  hash_mul,        \* the multiplier, a u32
  hash_res,        \* what sarc_hash returned, <<>> before the call
  \* a caller of Bfttf::parse, Bfttf::decrypt, decrypt and encrypt of bfttf.rs
  font_data,   \* the bytes read from the stream, or handed to decrypt and encrypt
  font_res,    \* what Bfttf::parse returned: [tag, platform, data], [tag |-> "none"] before
  font_out,    \* what the transforms returned, [tag |-> "none"] before
  \* a KeySet and the caller of load_prod_keys, load_title_keys and get_kaek
  ks_set,      \* the KeySet: [header_key, kaek, title_keys]
  ks_prev,     \* the KeySet as it was before the last load
  ks_call,     \* the last load: [loader, file], file being the ids of its lines;
               \* [tag |-> "none"] before
  ks_res,      \* what it returned: "none", "ok" or "Io"
  ks_runs,     \* how many loads there have been
  \* a caller of xts_decrypt_sector
  xts_key1,    \* the 16-byte data key
  xts_key2,    \* the 16-byte tweak key
  xts_sector,  \* the sector index
  xts_data,    \* the 0x200 bytes of the sector before the call
  xts_out      \* the sector after the call, <<>> before

aesVars == <<aes_pc, aes_key, aes_block, aes_cipher, aes_plain>>
ctrVars == <<ctr_key, ctr_counter, ctr_data, ctr_orig, ctr_runs>>

hdrVars == <<hdr_pc, hdr_key, hdr_plain, hdr_layout, hdr_enc, hdr_out>>

ioVars == <<io_buf, io_pos, io_op, io_res, io_val>>

arVars == <<ar_kind, ar_buf, ar_gen, ar_base, ar_pc, ar_res, ar_read, ar_view>>

hashVars == <<hash_name, hash_mul, hash_res>>

fontVars == <<font_data, font_res, font_out>>

ksVars == <<ks_set, ks_prev, ks_call, ks_res, ks_runs>>

xtsVars == <<xts_key1, xts_key2, xts_sector, xts_data, xts_out>>

vars == <<aesVars, ctrVars, hdrVars, ioVars, arVars, hashVars, fontVars, ksVars, xtsVars>>

\* What an action of one component leaves unchanged.
aesOthers == <<ctrVars, hdrVars, ioVars, arVars, hashVars, fontVars, ksVars, xtsVars>>
ctrOthers == <<aesVars, hdrVars, ioVars, arVars, hashVars, fontVars, ksVars, xtsVars>>
hdrOthers == <<aesVars, ctrVars, ioVars, arVars, hashVars, fontVars, ksVars, xtsVars>>
ioOthers == <<aesVars, ctrVars, hdrVars, arVars, hashVars, fontVars, ksVars, xtsVars>>
arOthers == <<aesVars, ctrVars, hdrVars, ioVars, hashVars, fontVars, ksVars, xtsVars>>
hashOthers == <<aesVars, ctrVars, hdrVars, ioVars, arVars, fontVars, ksVars, xtsVars>>
fontOthers == <<aesVars, ctrVars, hdrVars, ioVars, arVars, hashVars, ksVars, xtsVars>>
ksOthers == <<aesVars, ctrVars, hdrVars, ioVars, arVars, hashVars, fontVars, xtsVars>>
xtsOthers == <<aesVars, ctrVars, hdrVars, ioVars, arVars, hashVars, fontVars, ksVars>>

\* A component that takes no part in a specification stays idle.
AesIdle ==
  /\ aes_pc = "idle" /\ aes_key = <<>> /\ aes_block = <<>>
  /\ aes_cipher = <<>> /\ aes_plain = <<>>

CtrIdle ==
  /\ ctr_key = <<>> /\ ctr_counter = <<>> /\ ctr_data = <<>>
  /\ ctr_orig = <<>> /\ ctr_runs = 0

HdrIdle ==
  /\ hdr_pc = "idle" /\ hdr_key = <<>> /\ hdr_plain = <<>> /\ hdr_layout = "none"
  /\ hdr_enc = <<>> /\ hdr_out = [tag |-> "none", out |-> <<>>]

NoOp == [kind |-> "none", n |-> 0, from |-> 0]
NoResult == [tag |-> "none", err |-> ""]

IoIdle ==
  io_buf = <<>> /\ io_pos = 0 /\ io_op = NoOp /\ io_res = NoResult /\ io_val = <<>>

NotRun == [tag |-> "none"]

ArIdle ==
  /\ ar_kind = "none" /\ ar_buf = <<>> /\ ar_gen = NotRun /\ ar_base = 0
  /\ ar_pc = "idle" /\ ar_res = NotRun /\ ar_read = NotRun /\ ar_view = NotRun

HashIdle == hash_name = <<>> /\ hash_mul = <<>> /\ hash_res = <<>>

FontIdle == font_data = <<>> /\ font_res = NotRun /\ font_out = NotRun

KsIdle ==
  /\ ks_set = NotRun /\ ks_prev = NotRun /\ ks_call = NotRun
  /\ ks_res = "none" /\ ks_runs = 0

XtsIdle ==
  /\ xts_key1 = <<>> /\ xts_key2 = <<>> /\ xts_sector = 0
  /\ xts_data = <<>> /\ xts_out = <<>>

-----------------------------------------------------------------------------
(* Byte arithmetic.  Rust's u8 `^` is computed bit by bit and tabulated.    *)

RECURSIVE BitXor(_, _, _)
BitXor(a, b, n) ==
  IF n = 0 THEN 0
  ELSE ((a + b) % 2) + 2 * BitXor(a \div 2, b \div 2, n - 1)

\* The table of a ^ b, entry 256 * a + b.
XorTable == SubSeq([i \in 1..65536 |-> BitXor((i - 1) \div 256, (i - 1) % 256, 8)], 1, 65536)

\* A faulty u8 `^`: addition modulo 256 in place of exclusive or.
xor_additive(a, b) == (a + b) % 256

xor(a, b) == XorTable[256 * a + b + 1]

-----------------------------------------------------------------------------
(* Inputs: byte strings in arithmetic progression.                          *)

Pattern(seed, step, n) == SubSeq([k \in 1..n |-> (seed + step * (k - 1)) % 256], 1, n)

Zeros16 == <<0, 0, 0, 0, 0, 0, 0, 0, 0, 0, 0, 0, 0, 0, 0, 0>>

-----------------------------------------------------------------------------
(* AES-128 (src/src/crypto/nca.rs).                                         *)

SBOX ==
  <<
     99, 124, 119, 123, 242, 107, 111, 197, 48, 1, 103, 43, 254, 215, 171, 118,
     202, 130, 201, 125, 250, 89, 71, 240, 173, 212, 162, 175, 156, 164, 114, 192,
     183, 253, 147, 38, 54, 63, 247, 204, 52, 165, 229, 241, 113, 216, 49, 21,
     4, 199, 35, 195, 24, 150, 5, 154, 7, 18, 128, 226, 235, 39, 178, 117,
     9, 131, 44, 26, 27, 110, 90, 160, 82, 59, 214, 179, 41, 227, 47, 132,
     83, 209, 0, 237, 32, 252, 177, 91, 106, 203, 190, 57, 74, 76, 88, 207,
     208, 239, 170, 251, 67, 77, 51, 133, 69, 249, 2, 127, 80, 60, 159, 168,
     81, 163, 64, 143, 146, 157, 56, 245, 188, 182, 218, 33, 16, 255, 243, 210,
     205, 12, 19, 236, 95, 151, 68, 23, 196, 167, 126, 61, 100, 93, 25, 115,
     96, 129, 79, 220, 34, 42, 144, 136, 70, 238, 184, 20, 222, 94, 11, 219,
     224, 50, 58, 10, 73, 6, 36, 92, 194, 211, 172, 98, 145, 149, 228, 121,
     231, 200, 55, 109, 141, 213, 78, 169, 108, 86, 244, 234, 101, 122, 174, 8,
     186, 120, 37, 46, 28, 166, 180, 198, 232, 221, 116, 31, 75, 189, 139, 138,
     112, 62, 181, 102, 72, 3, 246, 14, 97, 53, 87, 185, 134, 193, 29, 158,
     225, 248, 152, 17, 105, 217, 142, 148, 155, 30, 135, 233, 206, 85, 40, 223,
     140, 161, 137, 13, 191, 230, 66, 104, 65, 153, 45, 15, 176, 84, 187, 22
  >>

INV_SBOX ==
  <<
     82, 9, 106, 213, 48, 54, 165, 56, 191, 64, 163, 158, 129, 243, 215, 251,
     124, 227, 57, 130, 155, 47, 255, 135, 52, 142, 67, 68, 196, 222, 233, 203,
     84, 123, 148, 50, 166, 194, 35, 61, 238, 76, 149, 11, 66, 250, 195, 78,
     8, 46, 161, 102, 40, 217, 36, 178, 118, 91, 162, 73, 109, 139, 209, 37,
     114, 248, 246, 100, 134, 104, 152, 22, 212, 164, 92, 204, 93, 101, 182, 146,
     108, 112, 72, 80, 253, 237, 185, 218, 94, 21, 70, 87, 167, 141, 157, 132,
     144, 216, 171, 0, 140, 188, 211, 10, 247, 228, 88, 5, 184, 179, 69, 6,
     208, 44, 30, 143, 202, 63, 15, 2, 193, 175, 189, 3, 1, 19, 138, 107,
     58, 145, 17, 65, 79, 103, 220, 234, 151, 242, 207, 206, 240, 180, 230, 115,
     150, 172, 116, 34, 231, 173, 53, 133, 226, 249, 55, 232, 28, 117, 223, 110,
     71, 241, 26, 113, 29, 41, 197, 137, 111, 183, 98, 14, 170, 24, 190, 27,
     252, 86, 62, 75, 198, 210, 121, 32, 154, 219, 192, 254, 120, 205, 90, 244,
     31, 221, 168, 51, 136, 7, 199, 49, 177, 18, 16, 89, 39, 128, 236, 95,
     96, 81, 127, 169, 25, 181, 74, 13, 45, 229, 122, 159, 147, 201, 156, 239,
     160, 224, 59, 77, 174, 42, 245, 176, 200, 235, 187, 60, 131, 83, 153, 97,
     23, 43, 4, 126, 186, 119, 214, 38, 225, 105, 20, 99, 85, 33, 12, 125
  >>

\* gmul: the 8-iteration shift-and-add loop; a, b are the loop's variables,
\* p the accumulator, n the iterations left.
RECURSIVE gmul_loop(_, _, _, _)
gmul_loop(a, b, p, n) ==
  IF n = 0 THEN p
  ELSE LET p1 == IF b % 2 # 0 THEN xor(p, a) ELSE p
           hi == a >= 128
           a1 == (a * 2) % 256
           a2 == IF hi THEN xor(a1, 27) ELSE a1
       IN  gmul_loop(a2, b \div 2, p1, n - 1)

gmul(a, b) == gmul_loop(a, b, 0, 8)

\* gmul tabulated for the coefficients the MixColumns matrices use.
GmulTable ==
  SubSeq([c \in 1..14 |->
            IF c \in {1, 2, 3, 9, 11, 13, 14}
            THEN SubSeq([k \in 1..256 |-> gmul(c, k - 1)], 1, 256)
            ELSE <<>>], 1, 14)

gm(a, b) == GmulTable[a][b + 1]

sub_bytes(s) == SubSeq([i \in 1..16 |-> SBOX[s[i] + 1]], 1, 16)

shift_rows(s) ==
  << s[1], s[6], s[11], s[16], s[5], s[10], s[15], s[4],
     s[9], s[14], s[3], s[8], s[13], s[2], s[7], s[12] >>

\* A faulty MixColumns column: the coefficients 2 and 3 change places.
mix_column_swapped(s0, s1, s2, s3) ==
  << xor(xor(gm(3, s0), gm(2, s1)), xor(s2, s3)),
     xor(xor(s0, gm(3, s1)), xor(gm(2, s2), s3)),
     xor(xor(s0, s1), xor(gm(3, s2), gm(2, s3))),
     xor(xor(gm(2, s0), s1), xor(s2, gm(3, s3))) >>

mix_column(s0, s1, s2, s3) ==
  << xor(xor(gm(2, s0), gm(3, s1)), xor(s2, s3)),
     xor(xor(s0, gm(2, s1)), xor(gm(3, s2), s3)),
     xor(xor(s0, s1), xor(gm(2, s2), gm(3, s3))),
     xor(xor(gm(3, s0), s1), xor(s2, gm(2, s3))) >>

mix_columns(s) ==
  mix_column(s[1], s[2], s[3], s[4]) \o mix_column(s[5], s[6], s[7], s[8])
    \o mix_column(s[9], s[10], s[11], s[12]) \o mix_column(s[13], s[14], s[15], s[16])

add_round_key(s, rk) == SubSeq([i \in 1..16 |-> xor(s[i], rk[i])], 1, 16)

rcon == <<1, 2, 4, 8, 16, 32, 64, 128, 27, 54>>

\* key_expand: the loop `for i in 4..44`.  w holds the bytes written so far,
\* 4 * i of them when the pass for word i begins.
RECURSIVE key_expand_loop(_)
key_expand_loop(w) ==
  IF Len(w) = 176 THEN w
  ELSE LET i == Len(w) \div 4
           t0 == << w[(i - 1) * 4 + 1], w[(i - 1) * 4 + 2],
                    w[(i - 1) * 4 + 3], w[(i - 1) * 4 + 4] >>
           t  == IF i % 4 = 0
                 THEN << xor(SBOX[t0[2] + 1], rcon[i \div 4]),
                         SBOX[t0[3] + 1], SBOX[t0[4] + 1], SBOX[t0[1] + 1] >>
                 ELSE t0
       IN  key_expand_loop(w \o << xor(w[(i - 4) * 4 + 1], t[1]),
                                   xor(w[(i - 4) * 4 + 2], t[2]),
                                   xor(w[(i - 4) * 4 + 3], t[3]),
                                   xor(w[(i - 4) * 4 + 4], t[4]) >>)

key_expand(key) == key_expand_loop(key)

round_key(round_keys, round) == SubSeq(round_keys, round * 16 + 1, (round + 1) * 16)

RECURSIVE encrypt_rounds(_, _, _)
encrypt_rounds(s, round_keys, round) ==
  IF round = 10 THEN s
  ELSE CHOOSE r \in
         {encrypt_rounds(s1, round_keys, round + 1) :
            s1 \in {add_round_key(mix_columns(shift_rows(sub_bytes(s))),
                                  round_key(round_keys, round))}} : TRUE

aes128_encrypt_block(block, round_keys) ==
  LET s9 == encrypt_rounds(add_round_key(block, round_key(round_keys, 0)), round_keys, 1)
  IN  add_round_key(shift_rows(sub_bytes(s9)), round_key(round_keys, 10))

inv_sub_bytes(s) == SubSeq([i \in 1..16 |-> INV_SBOX[s[i] + 1]], 1, 16)

\* A faulty InvShiftRows: the rows are rotated left, as ShiftRows does.
inv_shift_rows_forward(s) == shift_rows(s)

inv_shift_rows(s) ==
  << s[1], s[14], s[11], s[8], s[5], s[2], s[15], s[12],
     s[9], s[6], s[3], s[16], s[13], s[10], s[7], s[4] >>

inv_mix_column(s0, s1, s2, s3) ==
  << xor(xor(gm(14, s0), gm(11, s1)), xor(gm(13, s2), gm(9, s3))),
     xor(xor(gm(9, s0), gm(14, s1)), xor(gm(11, s2), gm(13, s3))),
     xor(xor(gm(13, s0), gm(9, s1)), xor(gm(14, s2), gm(11, s3))),
     xor(xor(gm(11, s0), gm(13, s1)), xor(gm(9, s2), gm(14, s3))) >>

inv_mix_columns(s) ==
  inv_mix_column(s[1], s[2], s[3], s[4]) \o inv_mix_column(s[5], s[6], s[7], s[8])
    \o inv_mix_column(s[9], s[10], s[11], s[12])
    \o inv_mix_column(s[13], s[14], s[15], s[16])

RECURSIVE decrypt_rounds(_, _, _)
decrypt_rounds(s, round_keys, round) ==
  IF round = 0 THEN s
  ELSE CHOOSE r \in
         {decrypt_rounds(s1, round_keys, round - 1) :
            s1 \in {inv_mix_columns(add_round_key(inv_sub_bytes(inv_shift_rows(s)),
                                                  round_key(round_keys, round)))}} : TRUE

aes128_decrypt_block(block, round_keys) ==
  LET s1 == decrypt_rounds(add_round_key(block, round_key(round_keys, 10)), round_keys, 9)
  IN  add_round_key(inv_sub_bytes(inv_shift_rows(s1)), round_key(round_keys, 0))

decrypt_block_ecb(block, key) == aes128_decrypt_block(block, key_expand(key))

\* Faulty counter increments: one that adds to the first byte (little-endian)
\* and one that drops the carry out of the last byte.
ctr_increment_first_byte(ctr, i) == [ctr EXCEPT ![1] = (ctr[1] + 1) % 256]

ctr_increment_no_carry(ctr, i) == IF i = 0 THEN ctr ELSE [ctr EXCEPT ![i] = (ctr[i] + 1) % 256]

\* A faulty increment that steps the last byte by two.
ctr_increment_by_two(ctr, i) == [ctr EXCEPT ![16] = (ctr[16] + 2) % 256]

\* The counter increment inside decrypt_section_ctr: bytes 15 down to 0 are
\* bumped with wrapping_add(1) until one does not wrap to zero.
RECURSIVE ctr_increment(_, _)
ctr_increment(ctr, i) ==
  IF i = 0 THEN ctr
  ELSE LET v == (ctr[i] + 1) % 256
           c1 == [ctr EXCEPT ![i] = v]
       IN  IF v # 0 THEN c1 ELSE ctr_increment(c1, i - 1)

\* The `for byte in data.iter_mut()` loop, one keystream block at a time: ks_pos
\* starts at 16 and returns to 16 after 16 bytes, so the refill branch is taken
\* at the bytes n with n % 16 = 0, and the bytes n .. n+15 (or up to the end of
\* data) are XORed with keystream[0..].  done holds the bytes already rewritten,
\* ctr the running counter.
RECURSIVE ctr_loop(_, _, _, _)
ctr_loop(data, done, rk, ctr) ==
  IF Len(done) = Len(data) THEN done
  ELSE LET n == Len(done)
           m == IF Len(data) - n < 16 THEN Len(data) - n ELSE 16
           keystream == aes128_encrypt_block(ctr, rk)
           bytes == SubSeq([k \in 1..m |-> xor(data[n + k], keystream[k])], 1, m)
       IN  ctr_loop(data, done \o bytes, rk, ctr_increment(ctr, 16))

\* decrypt_section_ctr: the buffer after the call.  counter is borrowed
\* immutably (ctr is a copy of it).
decrypt_section_ctr(data, key, counter) ==
  CHOOSE r \in {ctr_loop(data, <<>>, rk, counter) : rk \in {key_expand(key)}} : TRUE

\* u64::to_be_bytes for the sector numbers, all below 2^31.
to_be_bytes_u64(n) ==
  << 0, 0, 0, 0, (n \div 16777216) % 256, (n \div 65536) % 256, (n \div 256) % 256, n % 256 >>

\* A faulty tweak: the sector number stored little-endian.
make_xts_tweak_le(sector) ==
  << 0, 0, 0, 0, 0, 0, 0, 0, sector % 256, (sector \div 256) % 256, (sector \div 65536) % 256,
     (sector \div 16777216) % 256, 0, 0, 0, 0 >>

make_xts_tweak(sector) == <<0, 0, 0, 0, 0, 0, 0, 0>> \o to_be_bytes_u64(sector)

\* A faulty xts_mult_tweak: the shift without the reduction.
xts_mult_tweak_shift_only(t) ==
  SubSeq([k \in 1..16 |->
            IF k = 1 THEN (t[1] * 2) % 256
            ELSE ((t[k] * 2) % 256) + (t[k - 1] \div 128)], 1, 16)

\* xts_mult_tweak: the loop runs from byte 15 down to byte 1, so t[i - 1] is
\* still the old byte when t[i] is rewritten; u8 << 1 drops the top bit.
xts_mult_tweak(t) ==
  LET carry == t[16] \div 128
      shifted == SubSeq([k \in 1..16 |->
                           IF k = 1 THEN (t[1] * 2) % 256
                           ELSE ((t[k] * 2) % 256) + (t[k - 1] \div 128)], 1, 16)
  IN  IF carry # 0 THEN [shifted EXCEPT ![1] = xor(shifted[1], 135)] ELSE shifted

\* The loop of xts_decrypt_sector over the 16-byte blocks of the sector: done
\* holds the blocks already decrypted, t the running tweak.
\* `for i in 0..16 { block[i] ^= t[i] }`
xor_block(block, t) == SubSeq([i \in 1..16 |-> xor(block[i], t[i])], 1, 16)

RECURSIVE xts_loop(_, _, _, _)
xts_loop(data, done, rk1, t) ==
  IF Len(done) = Len(data) THEN done
  ELSE LET block_start == Len(done)
           block == SubSeq(data, block_start + 1, block_start + 16)
           plain == xor_block(aes128_decrypt_block(xor_block(block, t), rk1), t)
       IN  xts_loop(data, done \o plain, rk1, xts_mult_tweak(t))

xts_decrypt_sector(data, key1, key2, sector) ==
  LET rk1 == key_expand(key1)
      rk2 == key_expand(key2)
  IN  xts_loop(data, <<>>, rk1, aes128_encrypt_block(make_xts_tweak(sector), rk2))

SectorSize == 512
HeaderSize == 3072

\* A faulty sector choice: the NCA2 numbering is never applied.
fs_sector_contiguous(is_nca2, fs) == fs + 2

\* The sector number of FsHeader fs.
fs_sector(is_nca2, fs) == IF is_nca2 THEN 0 ELSE fs + 2

\* The second loop of decrypt_header: FsHeader fs is decrypted into out.
RECURSIVE decrypt_fs_headers(_, _, _, _, _)
decrypt_fs_headers(encrypted, out, k1, k2, is_nca2) ==
  IF Len(out) = HeaderSize THEN out
  ELSE LET fs == (Len(out) - 1024) \div SectorSize
           sector == fs_sector(is_nca2, fs)
           off == 1024 + fs * SectorSize
           block == SubSeq(encrypted, off + 1, off + SectorSize)
       IN  decrypt_fs_headers(encrypted, out \o xts_decrypt_sector(block, k1, k2, sector),
                              k1, k2, is_nca2)

Nca2Magic == <<78, 67, 65, 50>>

decrypt_header(encrypted, header_key) ==
  IF Len(encrypted) < HeaderSize THEN [tag |-> "panic", out |-> <<>>]
  ELSE LET k1 == SubSeq(header_key, 1, 16)
           k2 == SubSeq(header_key, 17, 32)
           out01 == xts_decrypt_sector(SubSeq(encrypted, 1, SectorSize), k1, k2, 0)
                      \o xts_decrypt_sector(SubSeq(encrypted, SectorSize + 1, 2 * SectorSize),
                                            k1, k2, 1)
           is_nca2 == SubSeq(out01, 513, 516) = Nca2Magic
       IN  [tag |-> "ok", out |-> decrypt_fs_headers(encrypted, out01, k1, k2, is_nca2)]

-----------------------------------------------------------------------------
(* Integers wider than 31 bits (u32, u64) are kept as their bytes, most     *)
(* significant first.                                                       *)

Reverse(b) == SubSeq([i \in 1..Len(b) |-> b[Len(b) + 1 - i]], 1, Len(b))

from_le_bytes(b) == Reverse(b)
from_be_bytes(b) == b

\* `x as u64` for a u32 x, and a small number as a u64.
as_u64(v) == SubSeq(<<0, 0, 0, 0, 0, 0, 0, 0>>, 1, 8 - Len(v)) \o v

NumFromNat(n) ==
  << 0, 0, 0, 0, (n \div 16777216) % 256, (n \div 65536) % 256, (n \div 256) % 256, n % 256 >>

\* The value of v when it is below 2^24, and whether it is.
NumIsSmall(v) == \A i \in 1..(Len(v) - 3) : v[i] = 0
NumToNat(v) == v[Len(v) - 2] * 65536 + v[Len(v) - 1] * 256 + v[Len(v)]

\* a + b on eight bytes: the wrapped sum and whether it overflowed 64 bits.
RECURSIVE NumAddLoop(_, _, _, _)
NumAddLoop(a, b, i, carry) ==
  IF i = 0 THEN [sum |-> a, overflow |-> carry # 0]
  ELSE NumAddLoop([a EXCEPT ![i] = (a[i] + b[i] + carry) % 256], b, i - 1,
                  (a[i] + b[i] + carry) \div 256)

NumAdd(a, b) == NumAddLoop(a, b, 8, 0)

\* a * k on eight bytes for a small k: the wrapped product and the overflow.
RECURSIVE NumMulLoop(_, _, _, _)
NumMulLoop(a, k, i, carry) ==
  IF i = 0 THEN [product |-> a, high |-> carry]
  ELSE NumMulLoop([a EXCEPT ![i] = (a[i] * k + carry) % 256], k, i - 1,
                  (a[i] * k + carry) \div 256)

NumMul(a, k) == NumMulLoop(a, k, 8, 0)

\* a < b for numbers of the same width.
NumLess(a, b) ==
  \E i \in 1..Len(a) : a[i] < b[i] /\ \A j \in 1..(i - 1) : a[j] = b[j]

\* a - b for numbers of the same width, a >= b.
RECURSIVE NumSubLoop(_, _, _, _)
NumSubLoop(a, b, i, borrow) ==
  IF i = 0 THEN a
  ELSE NumSubLoop([a EXCEPT ![i] = (a[i] - b[i] - borrow + 256) % 256], b, i - 1,
                  IF a[i] - b[i] - borrow < 0 THEN 1 ELSE 0)

NumSub(a, b) == NumSubLoop(a, b, Len(a), 0)

\* u32::saturating_sub.
saturating_sub(a, b) == IF NumLess(a, b) THEN <<0, 0, 0, 0>> ELSE NumSub(a, b)

-----------------------------------------------------------------------------
(* The typed reads of src/src/utils.rs on a stream (buf, pos).  A read      *)
(* returns [tag, err, val, pos]: the value and the position after it, or    *)
(* the error.                                                                *)

Ok(val, pos) == [tag |-> "ok", err |-> "", val |-> val, pos |-> pos]
Err(variant, pos) == [tag |-> "err", err |-> variant, val |-> <<>>, pos |-> pos]

\* impl From<io::Error> for Error: every I/O error, the end of the stream
\* included, becomes the variant Io.
FromIoError == "Io"

\* Read::read_exact followed by `?`.
read_exact(buf, pos, n) ==
  IF pos + n <= Len(buf) THEN Ok(SubSeq(buf, pos + 1, pos + n), pos + n)
  ELSE Err(FromIoError, pos)

\* The integer reads: read_exact, then from_le_bytes or from_be_bytes.
read_int(buf, pos, n, le) ==
  IF read_exact(buf, pos, n).tag = "ok"
  THEN Ok(IF le THEN from_le_bytes(read_exact(buf, pos, n).val)
          ELSE from_be_bytes(read_exact(buf, pos, n).val), pos + n)
  ELSE read_exact(buf, pos, n)

u8(buf, pos) == read_int(buf, pos, 1, TRUE)
le_u16(buf, pos) == read_int(buf, pos, 2, TRUE)
le_u32(buf, pos) == read_int(buf, pos, 4, TRUE)
le_u64(buf, pos) == read_int(buf, pos, 8, TRUE)
be_u16(buf, pos) == read_int(buf, pos, 2, FALSE)
be_u32(buf, pos) == read_int(buf, pos, 4, FALSE)
end_u16(buf, pos, le) == IF le THEN le_u16(buf, pos) ELSE be_u16(buf, pos)

\* A faulty end_u32: little-endian whatever the flag.
end_u32_always_le(buf, pos, le) == le_u32(buf, pos)

end_u32(buf, pos, le) == IF le THEN le_u32(buf, pos) ELSE be_u32(buf, pos)
bytesa(buf, pos, n) == read_exact(buf, pos, n)
bytesv(buf, pos, len) == read_exact(buf, pos, len)

magic(buf, pos, expected) ==
  IF bytesa(buf, pos, Len(expected)).tag # "ok" THEN bytesa(buf, pos, Len(expected))
  ELSE IF bytesa(buf, pos, Len(expected)).val # expected
       THEN Err("BadMagic", pos + Len(expected))
       ELSE Ok(<<>>, pos + Len(expected))

\* String::from_utf8_lossy on bytes that are ASCII or 0xFF, as a sequence of
\* code points: 0xFF begins no UTF-8 sequence and becomes U+FFFD.
from_utf8_lossy(bytes) ==
  SubSeq([i \in 1..Len(bytes) |-> IF bytes[i] < 128 THEN bytes[i] ELSE 65533], 1, Len(bytes))

\* A faulty null_string: an offset at the end of buf is out of range too.
null_string_strict(buf, offset) ==
  IF ~NumIsSmall(offset) \/ NumToNat(offset) >= Len(buf) THEN Err("InvalidRange", 0)
  ELSE LET zeros == {i \in (NumToNat(offset) + 1)..Len(buf) : buf[i] = 0}
       IN  IF zeros = {} THEN Err("UnterminatedName", 0)
           ELSE Ok(from_utf8_lossy(SubSeq(buf, NumToNat(offset) + 1,
                                          (CHOOSE i \in zeros : \A j \in zeros : i <= j) - 1)),
                   0)

\* null_string: buf.get(offset..) is None only when offset > buf.len().
null_string(buf, offset) ==
  IF ~NumIsSmall(offset) \/ NumToNat(offset) > Len(buf) THEN Err("InvalidRange", 0)
  ELSE LET zeros == {i \in (NumToNat(offset) + 1)..Len(buf) : buf[i] = 0}
       IN  IF zeros = {} THEN Err("UnterminatedName", 0)
           ELSE Ok(from_utf8_lossy(SubSeq(buf, NumToNat(offset) + 1,
                                          (CHOOSE i \in zeros : \A j \in zeros : i <= j) - 1)),
                   0)

-----------------------------------------------------------------------------
(* The archive parsers (src/src/formats), for a 64-bit usize.  A parser     *)
(* that succeeds also reports pos, the stream position when it returns, and *)
(* read_end, the end of the furthest byte it read.                          *)

\* Vec::with_capacity panics ("capacity overflow") when the capacity in bytes
\* exceeds isize::MAX.
capacity_overflow(count, elem_size) ==
  NumMul(count, elem_size).high # 0 \/ NumMul(count, elem_size).product[1] >= 128

\* bytesv for a length held as a number: no modelled stream has 2^24 bytes.
bytesv_usize(buf, pos, len) ==
  IF NumIsSmall(len) THEN bytesv(buf, pos, NumToNat(len)) ELSE Err(FromIoError, pos)

\* The first result that is not Ok, the last result if all are.
RECURSIVE FirstFailure(_)
FirstFailure(rs) ==
  IF Len(rs) = 1 \/ rs[1].tag # "ok" THEN rs[1] ELSE FirstFailure(Tail(rs))

ParseErr(r) == [tag |-> "err", err |-> r.err]
ParsePanic == [tag |-> "panic", err |-> ""]

\* The entry loop of Pfs0::parse: `for _ in 0..file_count`.
RECURSIVE pfs0_entries(_, _, _, _)
pfs0_entries(buf, pos, file_count, entries) ==
  IF ~NumLess(NumFromNat(Len(entries)), as_u64(file_count)) THEN Ok(entries, pos)
  ELSE LET r == FirstFailure(<<le_u64(buf, pos), le_u64(buf, pos + 8),
                               le_u32(buf, pos + 16), le_u32(buf, pos + 20)>>)
       IN  IF r.tag # "ok" THEN r
           ELSE pfs0_entries(buf, pos + 24, file_count,
                             Append(entries, [offset |-> le_u64(buf, pos).val,
                                              size |-> le_u64(buf, pos + 8).val,
                                              name_offset |-> le_u32(buf, pos + 16).val]))

\* The name loop of Pfs0::parse.
RECURSIVE pfs0_files(_, _, _)
pfs0_files(entries, string_table, files) ==
  IF Len(files) = Len(entries) THEN Ok(files, 0)
  ELSE LET e == entries[Len(files) + 1]
           name == null_string(string_table, e.name_offset)
       IN  IF name.tag # "ok" THEN name
           ELSE pfs0_files(entries, string_table,
                           Append(files, [name |-> name.val, offset |-> e.offset,
                                          size |-> e.size]))

\* A faulty data offset: measured from the archive, not from the stream origin.
data_offset_relative(base, file_count, string_table_size, stride) ==
  NumAdd(NumAdd(NumAdd(NumFromNat(0), NumFromNat(16)).sum,
                NumMul(as_u64(file_count), stride).product).sum,
         as_u64(string_table_size))

\* base + 0x10 + file_count as u64 * stride + string_table_size as u64.
data_offset_sum(base, file_count, string_table_size, stride) ==
  NumAdd(NumAdd(NumAdd(NumFromNat(base), NumFromNat(16)).sum,
                NumMul(as_u64(file_count), stride).product).sum,
         as_u64(string_table_size))

Pfs0_parse(buf, base) ==
  LET head == FirstFailure(<<magic(buf, base, <<80, 70, 83, 48>>), le_u32(buf, base + 4),
                             le_u32(buf, base + 8), le_u32(buf, base + 12)>>)
      file_count == le_u32(buf, base + 4).val
      string_table_size == le_u32(buf, base + 8).val
      entries == pfs0_entries(buf, base + 16, file_count, <<>>)
      string_table == bytesv_usize(buf, entries.pos, string_table_size)
      files == pfs0_files(entries.val, string_table.val, <<>>)
  IN  IF head.tag # "ok" THEN ParseErr(head)
      ELSE IF capacity_overflow(as_u64(file_count), 24) THEN ParsePanic
      ELSE IF entries.tag # "ok" THEN ParseErr(entries)
      ELSE IF string_table.tag # "ok" THEN ParseErr(string_table)
      ELSE IF capacity_overflow(as_u64(file_count), 40) THEN ParsePanic
      ELSE IF files.tag # "ok" THEN ParseErr(files)
      ELSE [tag |-> "ok", err |-> "", files |-> files.val,
            data_offset |-> data_offset_sum(base, file_count, string_table_size, 24).sum,
            pos |-> string_table.pos, read_end |-> string_table.pos]

\* The entry loop of Hfs0::parse.
RECURSIVE hfs0_entries(_, _, _, _)
hfs0_entries(buf, pos, file_count, entries) ==
  IF ~NumLess(NumFromNat(Len(entries)), as_u64(file_count)) THEN Ok(entries, pos)
  ELSE LET r == FirstFailure(<<le_u64(buf, pos), le_u64(buf, pos + 8),
                               le_u32(buf, pos + 16), le_u32(buf, pos + 20),
                               le_u32(buf, pos + 24), le_u32(buf, pos + 28),
                               bytesa(buf, pos + 32, 32)>>)
       IN  IF r.tag # "ok" THEN r
           ELSE hfs0_entries(buf, pos + 64, file_count,
                             Append(entries, [offset |-> le_u64(buf, pos).val,
                                              size |-> le_u64(buf, pos + 8).val,
                                              name_offset |-> le_u32(buf, pos + 16).val,
                                              hashed_region_size |-> le_u32(buf, pos + 20).val,
                                              sha256 |-> bytesa(buf, pos + 32, 32).val]))

\* The name loop of Hfs0::parse.
RECURSIVE hfs0_files(_, _, _)
hfs0_files(entries, string_table, files) ==
  IF Len(files) = Len(entries) THEN Ok(files, 0)
  ELSE LET e == entries[Len(files) + 1]
           name == null_string(string_table, e.name_offset)
       IN  IF name.tag # "ok" THEN name
           ELSE hfs0_files(entries, string_table,
                           Append(files, [name |-> name.val, offset |-> e.offset,
                                          size |-> e.size,
                                          hashed_region_size |-> e.hashed_region_size,
                                          sha256 |-> e.sha256]))

Hfs0_parse(buf, base) ==
  LET head == FirstFailure(<<magic(buf, base, <<72, 70, 83, 48>>), le_u32(buf, base + 4),
                             le_u32(buf, base + 8), le_u32(buf, base + 12)>>)
      file_count == le_u32(buf, base + 4).val
      string_table_size == le_u32(buf, base + 8).val
      entries == hfs0_entries(buf, base + 16, file_count, <<>>)
      string_table == bytesv_usize(buf, entries.pos, string_table_size)
      files == hfs0_files(entries.val, string_table.val, <<>>)
  IN  IF head.tag # "ok" THEN ParseErr(head)
      ELSE IF capacity_overflow(as_u64(file_count), 56) THEN ParsePanic
      ELSE IF entries.tag # "ok" THEN ParseErr(entries)
      ELSE IF string_table.tag # "ok" THEN ParseErr(string_table)
      ELSE IF capacity_overflow(as_u64(file_count), 80) THEN ParsePanic
      ELSE IF files.tag # "ok" THEN ParseErr(files)
      ELSE [tag |-> "ok", err |-> "", files |-> files.val,
            data_offset |-> data_offset_sum(base, file_count, string_table_size, 64).sum,
            pos |-> string_table.pos, read_end |-> string_table.pos]

\* Pfs0Reader::read_file and Hfs0Reader::read_file: seek to data_offset +
\* file.offset, then Take(file.size).  The u64 addition panics on overflow in
\* a build with overflow checks and wraps in one without; bytes holds what
\* reading the Take to its end returns.
read_file(buf, data_offset, file, overflow_checks) ==
  LET start == NumAdd(data_offset, file.offset)
      from == NumToNat(start.sum)
      upto == IF NumIsSmall(file.size) /\ from + NumToNat(file.size) < Len(buf)
              THEN from + NumToNat(file.size) ELSE Len(buf)
  IN  IF start.overflow /\ overflow_checks
      THEN [tag |-> "panic", start |-> <<>>, size |-> file.size, bytes |-> <<>>]
      ELSE [tag |-> "ok", start |-> start.sum, size |-> file.size,
            bytes |-> IF NumIsSmall(start.sum) /\ from < Len(buf)
                      THEN SubSeq(buf, from + 1, upto) ELSE <<>>]

\* SarcFile::size: data_end.saturating_sub(data_start) as u64.
SarcFile_size(file) == as_u64(saturating_sub(file.data_end, file.data_start))

\* SarcReader::read_file: seek to data_offset + file.data_start as u64, then
\* Take(file.size()).
sarc_read_file(buf, data_offset, file, overflow_checks) ==
  read_file(buf, data_offset,
            [offset |-> as_u64(file.data_start), size |-> SarcFile_size(file)],
            overflow_checks)

\* The view read_file returns, a Take over the source: the source position
\* (a number), the bytes the Take may still deliver (limit), the bytes it has
\* delivered and the count of its last read (-1 before any).
take(read) == [pos |-> read.start, limit |-> read.size, got |-> <<>>, last |-> -1]

\* What the source can deliver at a position: nothing at or past its end.
available(buf, pos) ==
  IF NumIsSmall(pos) /\ NumToNat(pos) < Len(buf) THEN Len(buf) - NumToNat(pos) ELSE 0

\* A faulty Take: the limit is not enforced.
take_max_unbounded(buf, view, len) ==
  IF len <= available(buf, view.pos) THEN len ELSE available(buf, view.pos)

\* Take::read into a buffer of len bytes reads at most min(len, limit) bytes
\* of the source, and none when the limit is zero.
take_max(buf, view, len) ==
  LET max == IF NumLess(view.limit, NumFromNat(len)) THEN NumToNat(view.limit) ELSE len
  IN  IF max <= available(buf, view.pos) THEN max ELSE available(buf, view.pos)

\* The view after a read that delivered n bytes: limit -= n.
take_read(buf, view, n) ==
  [pos |-> NumAdd(view.pos, NumFromNat(n)).sum,
   limit |-> NumSub(view.limit, NumFromNat(n)),
   got |-> view.got \o SubSeq(buf, NumToNat(view.pos) + 1, NumToNat(view.pos) + n),
   last |-> n]

\* The section loop of NczHeader::parse: `for _ in 0..section_count`.
RECURSIVE ncz_sections(_, _, _, _)
ncz_sections(buf, pos, section_count, sections) ==
  IF ~NumLess(NumFromNat(Len(sections)), section_count) THEN Ok(sections, pos)
  ELSE LET r == FirstFailure(<<le_u64(buf, pos), le_u64(buf, pos + 8), u8(buf, pos + 16),
                               bytesa(buf, pos + 17, 7), bytesa(buf, pos + 24, 16),
                               bytesa(buf, pos + 40, 16)>>)
       IN  IF r.tag # "ok" THEN r
           ELSE ncz_sections(buf, pos + 56, section_count,
                             Append(sections, [offset |-> le_u64(buf, pos).val,
                                               size |-> le_u64(buf, pos + 8).val,
                                               crypto_type |-> u8(buf, pos + 16).val,
                                               crypto_key |-> bytesa(buf, pos + 24, 16).val,
                                               crypto_counter |-> bytesa(buf, pos + 40, 16).val]))

NczHeader_parse(buf, base) ==
  LET head == FirstFailure(<<magic(buf, base, <<78, 67, 90, 83, 69, 67, 84, 78>>),
                             le_u64(buf, base + 8)>>)
      section_count == le_u64(buf, base + 8).val
      sections == ncz_sections(buf, base + 16, section_count, <<>>)
  IN  IF head.tag # "ok" THEN ParseErr(head)
      ELSE IF capacity_overflow(section_count, 56) THEN ParsePanic
      ELSE IF sections.tag # "ok" THEN ParseErr(sections)
      ELSE [tag |-> "ok", err |-> "", sections |-> sections.val,
            blocks_offset |-> NumFromNat(sections.pos)]

\* read_null_string: u8 after u8 from the current position up to the first
\* zero byte; a stream that ends first fails the u8 read.  pos of the result
\* is the position after the zero byte.
read_null_string(buf, pos) ==
  LET zeros == {i \in (pos + 1)..Len(buf) : buf[i] = 0}
      first == CHOOSE i \in zeros : \A j \in zeros : i <= j
  IN  IF zeros = {} THEN Err(FromIoError, pos)
      ELSE Ok(from_utf8_lossy(SubSeq(buf, pos + 1, first - 1)), first)

\* `if cond { return Err(Error::Parse(..)) }` as a step of a parser.
parse_check(ok, pos) == IF ok THEN Ok(<<>>, pos) ELSE Err("Parse", pos)

\* The SFAT entry loop of Sarc::parse: `for _ in 0..file_count`.
RECURSIVE sarc_entries(_, _, _, _, _)
sarc_entries(buf, pos, file_count, le, entries) ==
  IF ~NumLess(NumFromNat(Len(entries)), as_u64(file_count)) THEN Ok(entries, pos)
  ELSE LET r == FirstFailure(<<end_u32(buf, pos, le), end_u32(buf, pos + 4, le),
                               end_u32(buf, pos + 8, le), end_u32(buf, pos + 12, le)>>)
       IN  IF r.tag # "ok" THEN r
           ELSE sarc_entries(buf, pos + 16, file_count, le,
                             Append(entries, [hash |-> end_u32(buf, pos, le).val,
                                              name_attrs |-> end_u32(buf, pos + 4, le).val,
                                              data_start |-> end_u32(buf, pos + 8, le).val,
                                              data_end |-> end_u32(buf, pos + 12, le).val]))

\* The name loop of Sarc::parse: an entry with name_attrs = 0 has no name;
\* otherwise the stream seeks to name_table_start + (name_attrs & 0xFFFFFF) * 4,
\* reads a null-terminated string and seeks back.  read_end is the end of
\* the furthest byte read so far.
RECURSIVE sarc_files(_, _, _, _, _)
sarc_files(buf, name_table_start, entries, files, read_end) ==
  IF Len(files) = Len(entries) THEN Ok([files |-> files, read_end |-> read_end], name_table_start)
  ELSE LET e == entries[Len(files) + 1]
           named == e.name_attrs # <<0, 0, 0, 0>>
           name == read_null_string(buf, name_table_start + NumToNat(e.name_attrs) * 4)
       IN  IF named /\ name.tag # "ok" THEN name
           ELSE sarc_files(buf, name_table_start, entries,
                           Append(files, [name |-> IF named THEN <<name.val>> ELSE <<>>,
                                          hash |-> e.hash, data_start |-> e.data_start,
                                          data_end |-> e.data_end]),
                           IF named /\ name.pos > read_end THEN name.pos ELSE read_end)

\* A faulty data offset: the position after the name table header.
sarc_data_offset_implicit(sarc_start, data_offset, name_table_start) ==
  NumFromNat(name_table_start)

\* data_offset: sarc_start + data_offset, the DataOffset field of the header.
sarc_data_offset(sarc_start, data_offset, name_table_start) ==
  NumAdd(NumFromNat(sarc_start), as_u64(data_offset)).sum

\* A faulty limit: 0x3FFF itself is refused.
file_count_at_maximum(file_count) == ~NumLess(file_count, <<63, 255>>)

\* `file_count > 0x3FFF`.
file_count_exceeds_maximum(file_count) == NumLess(<<63, 255>>, file_count)

\* Sarc::parse.  pos is the stream position when it returns and read_end the
\* end of the furthest byte it read.
Sarc_parse(buf, base) ==
  LET header_size == le_u16(buf, base + 4)
      bom == le_u16(buf, base + 6)
      le == bom.val = <<255, 254>>
      data_offset == end_u32(buf, base + 12, le)
      version == le_u16(buf, base + 16)
      sfat_size == le_u16(buf, base + 24)
      file_count == end_u16(buf, base + 26, le)
      hash_multiplier == end_u32(buf, base + 28, le)
      head == FirstFailure(<<magic(buf, base, <<83, 65, 82, 67>>), header_size,
                             parse_check(header_size.val = <<0, 20>>, base + 6), bom,
                             parse_check(bom.val \in {<<255, 254>>, <<254, 255>>}, base + 8),
                             end_u32(buf, base + 8, le), data_offset, version,
                             le_u16(buf, base + 18),
                             magic(buf, base + 20, <<83, 70, 65, 84>>), sfat_size,
                             parse_check(sfat_size.val = <<0, 12>>, base + 26),
                             file_count, hash_multiplier,
                             parse_check(file_count.tag # "ok"
                                           \/ ~file_count_exceeds_maximum(file_count.val),
                                         base + 32)>>)
      entries == sarc_entries(buf, base + 32, file_count.val, le, <<>>)
      sfnt_size == le_u16(buf, entries.pos + 4)
      sfnt == FirstFailure(<<magic(buf, entries.pos, <<83, 70, 78, 84>>), sfnt_size,
                             parse_check(sfnt_size.val = <<0, 8>>, entries.pos + 6),
                             le_u16(buf, entries.pos + 6)>>)
      name_table_start == entries.pos + 8
      files == sarc_files(buf, name_table_start, entries.val, <<>>, name_table_start)
  IN  IF head.tag # "ok" THEN ParseErr(head)
      ELSE IF entries.tag # "ok" THEN ParseErr(entries)
      ELSE IF sfnt.tag # "ok" THEN ParseErr(sfnt)
      ELSE IF files.tag # "ok" THEN ParseErr(files)
      ELSE [tag |-> "ok", err |-> "", files |-> files.val.files, le |-> le,
            version |-> version.val, hash_multiplier |-> hash_multiplier.val,
            data_offset |-> sarc_data_offset(base, data_offset.val, name_table_start),
            pos |-> name_table_start, read_end |-> files.val.read_end]

\* A faulty turn of the block loop: a zero length is an empty block.
read_block_keeps_zero(buf, pos, n) ==
  IF n # 4 THEN [tag |-> "break", block |-> <<>>, pos |-> pos]
  ELSE LET block == bytesv_usize(buf, pos + 4, as_u64(from_le_bytes(SubSeq(buf, pos + 1, pos + 4))))
       IN  IF block.tag # "ok" THEN [tag |-> "err", block |-> <<>>, pos |-> pos + 4]
           ELSE [tag |-> "block", block |-> block.val, pos |-> block.pos]

\* A faulty turn: a block body cut short ends the enumeration like a short
\* length does.
read_block_short_body_ends(buf, pos, n) ==
  IF n # 4 THEN [tag |-> "break", block |-> <<>>, pos |-> pos]
  ELSE IF from_le_bytes(SubSeq(buf, pos + 1, pos + 4)) = <<0, 0, 0, 0>>
  THEN [tag |-> "break", block |-> <<>>, pos |-> pos + 4]
  ELSE LET block == bytesv_usize(buf, pos + 4, as_u64(from_le_bytes(SubSeq(buf, pos + 1, pos + 4))))
       IN  IF block.tag # "ok" THEN [tag |-> "break", block |-> <<>>, pos |-> pos + 4]
           ELSE [tag |-> "block", block |-> block.val, pos |-> block.pos]

\* One turn of the loop of read_compressed_blocks, after r.read(&mut b) on
\* the four-byte buffer returned n bytes (-1 for Err): break unless n = 4 and
\* the little-endian length is not zero, else bytesv(r, compressed_size)?.
read_block(buf, pos, n) ==
  IF n # 4 THEN [tag |-> "break", block |-> <<>>, pos |-> pos]
  ELSE IF from_le_bytes(SubSeq(buf, pos + 1, pos + 4)) = <<0, 0, 0, 0>>
  THEN [tag |-> "break", block |-> <<>>, pos |-> pos + 4]
  ELSE LET block == bytesv_usize(buf, pos + 4, as_u64(from_le_bytes(SubSeq(buf, pos + 1, pos + 4))))
       IN  IF block.tag # "ok" THEN [tag |-> "err", block |-> <<>>, pos |-> pos + 4]
           ELSE [tag |-> "block", block |-> block.val, pos |-> block.pos]

-----------------------------------------------------------------------------
(* BFTTF / BFOTF fonts of src/src/formats/bfttf.rs.                         *)

\* FontPlatform::xor_key.
xor_key(platform) ==
  CASE platform = "WiiU" -> <<42, 206, 245, 22, 16, 13, 196, 195,
                              40, 120, 39, 66, 165, 91, 244, 171>>
    [] platform = "Switch" -> <<21, 154, 125, 111, 22, 111, 208, 12,
                                103, 231, 57, 152, 11, 235, 246, 98>>
    [] platform = "Windows" -> <<151, 59, 92, 108, 38, 243, 250, 181,
                                 162, 213, 142, 181, 90, 77, 213, 81>>

\* A faulty xor_with_key: the key is not repeated after its sixteen bytes.
xor_with_key_once(data, key) ==
  SubSeq([i \in 1..Len(data) |-> IF i <= 16 THEN xor(data[i], key[i]) ELSE data[i]],
         1, Len(data))

\* xor_with_key: `b ^ key[i % 16]` for byte i, counted from 0.
xor_with_key(data, key) ==
  SubSeq([i \in 1..Len(data) |-> xor(data[i], key[((i - 1) % 16) + 1])], 1, Len(data))

\* The free functions decrypt and encrypt.
decrypt(data, platform) == xor_with_key(data, xor_key(platform))
encrypt(data, platform) == xor_with_key(data, xor_key(platform))

\* `head.starts_with(prefix)`.
starts_with(head, prefix) ==
  Len(head) >= Len(prefix) /\ SubSeq(head, 1, Len(prefix)) = prefix

\* A faulty is_valid_font_after_xor: four bytes are enough.
is_valid_font_of_four(data, key) ==
  IF Len(data) < 4 THEN FALSE
  ELSE LET head == SubSeq([i \in 1..Len(data) |-> xor(data[i], key[((i - 1) % 16) + 1])],
                          1, IF Len(data) < 5 THEN 4 ELSE 5)
       IN  \/ starts_with(head, <<0, 1, 0, 0, 0>>)
           \/ starts_with(head, <<79, 84, 84, 79>>)
           \/ starts_with(head, <<116, 116, 99, 102>>)

\* is_valid_font_after_xor.
is_valid_font_after_xor(data, key) ==
  IF Len(data) < 5 THEN FALSE
  ELSE LET head == SubSeq([i \in 1..5 |-> xor(data[i], key[((i - 1) % 16) + 1])], 1, 5)
       IN  \/ starts_with(head, <<0, 1, 0, 0, 0>>)
           \/ starts_with(head, <<79, 84, 84, 79>>)
           \/ starts_with(head, <<116, 116, 99, 102>>)

\* Bfttf::parse on a stream that holds data: read_to_end, then the platforms
\* in the order Switch, WiiU, Windows.
Bfttf_parse(data) ==
  IF is_valid_font_after_xor(data, xor_key("Switch"))
  THEN [tag |-> "ok", platform |-> "Switch", data |-> data]
  ELSE IF is_valid_font_after_xor(data, xor_key("WiiU"))
  THEN [tag |-> "ok", platform |-> "WiiU", data |-> data]
  ELSE IF is_valid_font_after_xor(data, xor_key("Windows"))
  THEN [tag |-> "ok", platform |-> "Windows", data |-> data]
  ELSE [tag |-> "err", err |-> "BadMagic"]

\* Bfttf::decrypt.
Bfttf_decrypt(self) == xor_with_key(self.data, xor_key(self.platform))

-----------------------------------------------------------------------------
(* The SARC filename hash, on u32 values of four bytes.                     *)

\* u32::wrapping_add.
wrapping_add(a, b) == NumAddLoop(a, b, 4, 0).sum

\* u32::wrapping_mul: the low four bytes of the product, byte by byte.
wrapping_mul(a, b) ==
  LET c0 == a[4] * b[4]
      c1 == a[4] * b[3] + a[3] * b[4] + (c0 \div 256)
      c2 == a[4] * b[2] + a[3] * b[3] + a[2] * b[4] + (c1 \div 256)
      c3 == a[4] * b[1] + a[3] * b[2] + a[2] * b[3] + a[1] * b[4] + (c2 \div 256)
  IN  <<c3 % 256, c2 % 256, c1 % 256, c0 % 256>>

\* A faulty widening: `b as u32`, without the sign.
zero_extend_u8(b) == <<0, 0, 0, b>>

\* `b as i8 as u32`: a byte of 0x80 and above is a negative i8 and widens
\* with ones.
sign_extend_i8(b) == IF b < 128 THEN <<0, 0, 0, b>> ELSE <<255, 255, 255, b>>

\* The loop of sarc_hash from byte i of the name on, h being the hash so far.
RECURSIVE sarc_hash_loop(_, _, _, _)
sarc_hash_loop(name, multiplier, i, h) ==
  IF i > Len(name) THEN h
  ELSE CHOOSE r \in {sarc_hash_loop(name, multiplier, i + 1, h1) :
                      h1 \in {wrapping_add(wrapping_mul(h, multiplier),
                                            sign_extend_i8(name[i]))}} : TRUE

sarc_hash(name, multiplier) == sarc_hash_loop(name, multiplier, 1, <<0, 0, 0, 0>>)

-----------------------------------------------------------------------------
(* The NCA header (src/src/formats/nca.rs).                                 *)

DistributionType_from(v) ==
  CASE v = 0 -> [tag |-> "Download"]
    [] v = 1 -> [tag |-> "GameCard"]
    [] OTHER -> [tag |-> "Unknown", v |-> v]

ContentType_from(v) ==
  CASE v = 0 -> [tag |-> "Program"]
    [] v = 1 -> [tag |-> "Meta"]
    [] v = 2 -> [tag |-> "Control"]
    [] v = 3 -> [tag |-> "Manual"]
    [] v = 4 -> [tag |-> "Data"]
    [] v = 5 -> [tag |-> "PublicData"]
    [] OTHER -> [tag |-> "Unknown", v |-> v]

\* A faulty version match: the fourth byte of any magic that begins "NCA".
nca_version_any_digit(magic4) ==
  IF SubSeq(magic4, 1, 3) = <<78, 67, 65>> /\ magic4[4] \in 48..57 THEN magic4[4] - 48 ELSE -1

\* The match on the magic: the version, or -1 for the arm that returns BadMagic.
nca_version(magic4) ==
  CASE magic4 = <<78, 67, 65, 51>> -> 3
    [] magic4 = <<78, 67, 65, 50>> -> 2
    [] magic4 = <<78, 67, 65, 49>> -> 1
    [] magic4 = <<78, 67, 65, 48>> -> 0
    [] OTHER -> -1

\* Nca::parse: seek 0x200 bytes forward, then the header fields in order.
Nca_parse(buf, base) ==
  LET at == base + 512
      magic4 == bytesa(buf, at, 4)
      version == nca_version(magic4.val)
      fs == SubSeq([i \in 1..4 |->
                      FirstFailure(<<le_u32(buf, at + 64 + 16 * (i - 1)),
                                     le_u32(buf, at + 68 + 16 * (i - 1)),
                                     le_u64(buf, at + 72 + 16 * (i - 1))>>)], 1, 4)
      hashes == SubSeq([i \in 1..4 |-> bytesa(buf, at + 128 + 32 * (i - 1), 32)], 1, 4)
      keys == SubSeq([i \in 1..4 |-> bytesa(buf, at + 256 + 16 * (i - 1), 16)], 1, 4)
      fields == FirstFailure(<<u8(buf, at + 4), u8(buf, at + 5), u8(buf, at + 6),
                               u8(buf, at + 7), le_u64(buf, at + 8), le_u64(buf, at + 16),
                               le_u32(buf, at + 24), le_u32(buf, at + 28), u8(buf, at + 32),
                               u8(buf, at + 33), bytesa(buf, at + 34, 14),
                               bytesa(buf, at + 48, 16)>> \o fs \o hashes \o keys)
      key_gen_old == u8(buf, at + 6).val[1]
      key_gen_new == u8(buf, at + 32).val[1]
  IN  IF magic4.tag # "ok" THEN ParseErr(magic4)
      ELSE IF version = -1 THEN [tag |-> "err", err |-> "BadMagic"]
      ELSE IF fields.tag # "ok" THEN ParseErr(fields)
      ELSE IF version > 3 THEN [tag |-> "err", err |-> "UnsupportedVersion"]
      ELSE [tag |-> "ok", err |-> "", version |-> version,
            distribution_type |-> DistributionType_from(u8(buf, at + 4).val[1]),
            content_type |-> ContentType_from(u8(buf, at + 5).val[1]),
            key_generation |-> IF key_gen_old > key_gen_new THEN key_gen_old ELSE key_gen_new,
            key_area_enc_key_index |-> u8(buf, at + 7).val[1],
            content_size |-> le_u64(buf, at + 8).val,
            program_id |-> le_u64(buf, at + 16).val,
            content_index |-> le_u32(buf, at + 24).val,
            sdk_addon_version |-> le_u32(buf, at + 28).val,
            rights_id |-> bytesa(buf, at + 48, 16).val,
            fs_entries |-> SubSeq([i \in 1..4 |->
                                     [start_block |-> le_u32(buf, at + 64 + 16 * (i - 1)).val,
                                      end_block |-> le_u32(buf, at + 68 + 16 * (i - 1)).val]],
                                  1, 4),
            fs_header_hashes |-> SubSeq([i \in 1..4 |-> hashes[i].val], 1, 4),
            encrypted_key_area |-> SubSeq([i \in 1..4 |-> keys[i].val], 1, 4),
            pos |-> at + 320]

None == [some |-> FALSE, val |-> <<>>]
Some(v) == [some |-> TRUE, val |-> v]

\* A faulty section offset: the product computed in 32 bits before widening.
section_offset_u32(nca, section) ==
  IF section >= 4 THEN None
  ELSE IF nca.fs_entries[section + 1].start_block = <<0, 0, 0, 0>>
          /\ nca.fs_entries[section + 1].end_block = <<0, 0, 0, 0>> THEN None
  ELSE Some(as_u64(SubSeq(NumMul(as_u64(nca.fs_entries[section + 1].start_block), 512).product,
                          5, 8)))

\* Nca::section_offset: fs_entries.get(section)?, then start_block as u64 * 0x200.
section_offset(nca, section) ==
  IF section >= 4 THEN None
  ELSE IF nca.fs_entries[section + 1].start_block = <<0, 0, 0, 0>>
          /\ nca.fs_entries[section + 1].end_block = <<0, 0, 0, 0>> THEN None
  ELSE Some(NumMul(as_u64(nca.fs_entries[section + 1].start_block), 512).product)

-----------------------------------------------------------------------------
(* The NPDM metadata (src/src/formats/npdm.rs).                             *)

\* null_padded_string: the bytes before the first zero, decoded lossily.
null_padded_string(bytes) ==
  LET zeros == {i \in 1..Len(bytes) : bytes[i] = 0}
  IN  from_utf8_lossy(SubSeq(bytes, 1, IF zeros = {} THEN Len(bytes)
                                       ELSE (CHOOSE i \in zeros : \A j \in zeros : i <= j) - 1))

\* seek(SeekFrom::Start(base + offset as u64)) for a u32 offset: the new
\* position; no modelled stream reaches 2^24 bytes, so a larger offset is a
\* position past the end.
seek_from_base(buf, base, offset) ==
  IF NumIsSmall(offset) THEN base + NumToNat(offset) ELSE Len(buf) + 16777216

Aci0_parse(buf, pos) ==
  LET r == FirstFailure(<<magic(buf, pos, <<65, 67, 73, 48>>), bytesa(buf, pos + 4, 12),
                          le_u64(buf, pos + 16)>>)
  IN  IF r.tag # "ok" THEN r ELSE Ok([program_id |-> le_u64(buf, pos + 16).val], pos + 24)

\* A faulty Acid::parse: the magic is looked for at the start of the region.
Acid_parse_no_skip(buf, pos) ==
  LET r == FirstFailure(<<magic(buf, pos, <<65, 67, 73, 68>>), le_u32(buf, pos + 4),
                          le_u32(buf, pos + 8), le_u32(buf, pos + 12),
                          le_u64(buf, pos + 16), le_u64(buf, pos + 24)>>)
  IN  IF r.tag # "ok" THEN r
      ELSE Ok([flags |-> le_u32(buf, pos + 8).val, program_id_min |-> le_u64(buf, pos + 16).val,
               program_id_max |-> le_u64(buf, pos + 24).val], pos + 32)

\* Acid::parse: the signature and the public key (0x200 bytes), then "ACID"
\* and the fields.
Acid_parse(buf, pos) ==
  LET r == FirstFailure(<<bytesa(buf, pos, 256), bytesa(buf, pos + 256, 256),
                          magic(buf, pos + 512, <<65, 67, 73, 68>>), le_u32(buf, pos + 516),
                          le_u32(buf, pos + 520), le_u32(buf, pos + 524),
                          le_u64(buf, pos + 528), le_u64(buf, pos + 536)>>)
  IN  IF r.tag # "ok" THEN r
      ELSE Ok([flags |-> le_u32(buf, pos + 520).val,
               program_id_min |-> le_u64(buf, pos + 528).val,
               program_id_max |-> le_u64(buf, pos + 536).val], pos + 544)

\* Result::ok.
ok(r) == IF r.tag = "ok" THEN [some |-> TRUE, val |-> r.val] ELSE [some |-> FALSE, val |-> <<>>]

\* Npdm::parse: the META header, the mandatory ACI0 at base + aci_offset and
\* the ACID at base + acid_offset, whose failure is dropped by `.ok()`.
Npdm_parse(buf, base) ==
  LET head == FirstFailure(<<magic(buf, base, <<77, 69, 84, 65>>), le_u32(buf, base + 4),
                             le_u32(buf, base + 8), u8(buf, base + 12), u8(buf, base + 13),
                             u8(buf, base + 14), u8(buf, base + 15), le_u32(buf, base + 16),
                             le_u32(buf, base + 20), le_u32(buf, base + 24),
                             le_u32(buf, base + 28), bytesa(buf, base + 32, 16),
                             bytesa(buf, base + 48, 16), bytesa(buf, base + 64, 48),
                             le_u32(buf, base + 112), le_u32(buf, base + 116),
                             le_u32(buf, base + 120), le_u32(buf, base + 124)>>)
      aci_offset == le_u32(buf, base + 112).val
      acid_offset == le_u32(buf, base + 120).val
      aci == Aci0_parse(buf, seek_from_base(buf, base, aci_offset))
      acid == IF acid_offset # <<0, 0, 0, 0>>
              THEN ok(Acid_parse(buf, seek_from_base(buf, base, acid_offset)))
              ELSE [some |-> FALSE, val |-> <<>>]
  IN  IF head.tag # "ok" THEN ParseErr(head)
      ELSE IF aci.tag # "ok" THEN ParseErr(aci)
      ELSE [tag |-> "ok", err |-> "",
            is_64bit |-> u8(buf, base + 12).val[1] % 2 = 1,
            main_thread_priority |-> u8(buf, base + 14).val[1],
            main_thread_core |-> u8(buf, base + 15).val[1],
            system_resource_size |-> le_u32(buf, base + 20).val,
            version |-> le_u32(buf, base + 24).val,
            main_thread_stack_size |-> le_u32(buf, base + 28).val,
            title_name |-> null_padded_string(bytesa(buf, base + 32, 16).val),
            product_code |-> null_padded_string(bytesa(buf, base + 48, 16).val),
            aci |-> aci.val, acid |-> acid]

-----------------------------------------------------------------------------
(* The XCI card image (src/src/formats/xci.rs).                             *)

\* A faulty seek to the card header: SeekFrom::Current in place of Start.
head_position_relative(pos) == pos + 4352

\* r.seek(SeekFrom::Start(0x1100)): the position of "HEAD", wherever the
\* stream was.
head_position(pos) == 4352

\* r.seek(SeekFrom::Start(hfs0_offset)) for a u64 offset: the new position; no
\* modelled stream reaches 2^24 bytes, so a larger offset is past the end.
seek_start(buf, offset) ==
  IF NumIsSmall(offset) THEN NumToNat(offset) ELSE Len(buf) + 16777216

\* Xci::parse on a stream at position pos: the card header at 0x1100, then
\* Hfs0::parse at hfs0_offset.
Xci_parse(buf, pos) ==
  LET at == head_position(pos)
      head == FirstFailure(<<magic(buf, at, <<72, 69, 65, 68>>), le_u32(buf, at + 4),
                             le_u32(buf, at + 8), u8(buf, at + 12), u8(buf, at + 13),
                             u8(buf, at + 14), u8(buf, at + 15), le_u64(buf, at + 16),
                             le_u32(buf, at + 24), le_u32(buf, at + 28),
                             bytesa(buf, at + 32, 16), le_u64(buf, at + 48),
                             le_u64(buf, at + 56), bytesa(buf, at + 64, 32)>>)
      hfs0_offset == le_u64(buf, at + 48).val
      root_partition == Hfs0_parse(buf, seek_start(buf, hfs0_offset))
  IN  IF head.tag # "ok" THEN ParseErr(head)
      ELSE IF root_partition.tag # "ok" THEN [tag |-> root_partition.tag, err |-> root_partition.err]
      ELSE [tag |-> "ok", err |-> "", hfs0_offset |-> hfs0_offset,
            hfs0_size |-> le_u64(buf, at + 56).val,
            hfs0_header_hash |-> bytesa(buf, at + 64, 32).val,
            rom_size |-> u8(buf, at + 13).val[1],
            package_id |-> le_u64(buf, at + 16).val,
            root_partition |-> root_partition]

-----------------------------------------------------------------------------
(* The key files of src/src/keys.rs.  A string is the sequence of its       *)
(* bytes; a reader is the sequence of its lines, as BufRead::lines cuts     *)
(* them.                                                                    *)

MAX_KEY_GENERATION == 32

\* Whether bytes i.. of a line are UTF-8, as BufRead::lines requires of each
\* line (it fails with InvalidData otherwise).
RECURSIVE is_utf8_from(_, _)
is_utf8_from(s, i) ==
  LET cont(k) == k <= Len(s) /\ s[k] \in 128..191
  IN  IF i > Len(s) THEN TRUE
      ELSE IF s[i] < 128 THEN is_utf8_from(s, i + 1)
      ELSE IF s[i] \in 194..223 THEN cont(i + 1) /\ is_utf8_from(s, i + 2)
      ELSE IF s[i] = 224
      THEN i + 1 <= Len(s) /\ s[i + 1] \in 160..191 /\ cont(i + 2) /\ is_utf8_from(s, i + 3)
      ELSE IF s[i] = 237
      THEN i + 1 <= Len(s) /\ s[i + 1] \in 128..159 /\ cont(i + 2) /\ is_utf8_from(s, i + 3)
      ELSE IF s[i] \in 225..239 THEN cont(i + 1) /\ cont(i + 2) /\ is_utf8_from(s, i + 3)
      ELSE IF s[i] = 240
      THEN i + 1 <= Len(s) /\ s[i + 1] \in 144..191 /\ cont(i + 2) /\ cont(i + 3)
             /\ is_utf8_from(s, i + 4)
      ELSE IF s[i] \in 241..243
      THEN cont(i + 1) /\ cont(i + 2) /\ cont(i + 3) /\ is_utf8_from(s, i + 4)
      ELSE IF s[i] = 244
      THEN i + 1 <= Len(s) /\ s[i + 1] \in 128..143 /\ cont(i + 2) /\ cont(i + 3)
             /\ is_utf8_from(s, i + 4)
      ELSE FALSE

\* A faulty reader of lines: bytes that are not UTF-8 are let through.
is_utf8_lossy(s) == TRUE

is_utf8(s) == is_utf8_from(s, 1)

\* str::trim on strings whose white space is ASCII: tab, line feed, vertical
\* tab, form feed, carriage return and space.
is_whitespace(b) == b \in {9, 10, 11, 12, 13, 32}

RECURSIVE trim_start(_)
trim_start(s) ==
  IF s = <<>> \/ ~is_whitespace(s[1]) THEN s ELSE trim_start(Tail(s))

RECURSIVE trim_end(_)
trim_end(s) ==
  IF s = <<>> \/ ~is_whitespace(s[Len(s)]) THEN s ELSE trim_end(SubSeq(s, 1, Len(s) - 1))

trim(s) == trim_end(trim_start(s))

\* str::split_once on a one-byte delimiter: None, or the parts before and
\* after its first occurrence.
split_once(s, delimiter) ==
  LET at == {i \in 1..Len(s) : s[i] = delimiter}
  IN  IF at = {} THEN None
      ELSE LET first == CHOOSE i \in at : \A j \in at : i <= j
           IN  Some(<<SubSeq(s, 1, first - 1), SubSeq(s, first + 1, Len(s))>>)

\* str::strip_prefix.
strip_prefix(s, prefix) ==
  IF Len(s) >= Len(prefix) /\ SubSeq(s, 1, Len(prefix)) = prefix
  THEN Some(SubSeq(s, Len(prefix) + 1, Len(s)))
  ELSE None

\* hex_nibble: Ok(value) or Err(()).
hex_nibble(b) ==
  IF b \in 48..57 THEN Some(b - 48)
  ELSE IF b \in 97..102 THEN Some(b - 97 + 10)
  ELSE IF b \in 65..70 THEN Some(b - 65 + 10)
  ELSE None

\* A faulty length check of decode_hex_n: shorter values are padded with
\* zero digits.
decode_hex_padded(s, n) ==
  LET t == trim(s)
      d == t \o Pattern(48, 0, 2 * n - Len(t))
  IN  IF Len(t) > 2 * n \/ \E i \in 1..(2 * n) : ~hex_nibble(d[i]).some THEN None
      ELSE Some(SubSeq([i \in 1..n |-> hex_nibble(d[2 * i - 1]).val * 16
                                        + hex_nibble(d[2 * i]).val], 1, n))

\* decode_hex_n::<N>: Ok(bytes) or Err(()).
decode_hex_n(s, n) ==
  LET t == trim(s)
  IN  IF Len(t) # 2 * n THEN None
      ELSE IF \E i \in 1..(2 * n) : ~hex_nibble(t[i]).some THEN None
      ELSE Some(SubSeq([i \in 1..n |-> hex_nibble(t[2 * i - 1]).val * 16
                                        + hex_nibble(t[2 * i]).val], 1, n))

decode_hex_16(s) == decode_hex_n(s, 16)
decode_hex_32(s) == decode_hex_n(s, 32)

\* usize::from_str_radix(s, 16) for a 64-bit usize: an optional '+', then
\* at least one hex digit; Err when there is none, on another character and
\* on overflow.  The value is kept up to 16^6 and is 16^6 for all above.
RECURSIVE from_str_radix_16_loop(_, _, _, _)
from_str_radix_16_loop(s, i, significant, acc) ==
  IF i > Len(s) THEN Some(acc)
  ELSE IF ~hex_nibble(s[i]).some THEN None
  ELSE IF significant = 16 THEN None
  ELSE from_str_radix_16_loop(s, i + 1,
         IF significant = 0 /\ hex_nibble(s[i]).val = 0 THEN 0 ELSE significant + 1,
         IF acc * 16 + hex_nibble(s[i]).val > 16777216 THEN 16777216
         ELSE acc * 16 + hex_nibble(s[i]).val)

from_str_radix_16(s) ==
  LET digits == IF s # <<>> /\ s[1] = 43 THEN Tail(s) ELSE s
  IN  IF digits = <<>> THEN None ELSE from_str_radix_16_loop(digits, 1, 0, 0)

\* "header_key", "key_area_key_application_", "key_area_key_ocean_" and
\* "key_area_key_system_".
HEADER_KEY_NAME == <<104, 101, 97, 100, 101, 114, 95, 107, 101, 121>>
PFX_APP ==
  <<107, 101, 121, 95, 97, 114, 101, 97, 95, 107, 101, 121, 95,
    97, 112, 112, 108, 105, 99, 97, 116, 105, 111, 110, 95>>
PFX_OCEAN ==
  <<107, 101, 121, 95, 97, 114, 101, 97, 95, 107, 101, 121, 95, 111, 99, 101, 97, 110, 95>>
PFX_SYSTEM ==
  <<107, 101, 121, 95, 97, 114, 101, 97, 95, 107, 101, 121, 95, 115, 121, 115, 116, 101, 109, 95>>

\* KeySet::new.
KeySet_new ==
  [header_key |-> None,
   kaek |-> [index \in 0..2 |-> [generation \in 0..(MAX_KEY_GENERATION - 1) |-> None]],
   title_keys |-> {}]

\* The three prefixes of a key area key, by index.
kaek_prefix(idx) ==
  CASE idx = 0 -> PFX_APP
    [] idx = 1 -> PFX_OCEAN
    [] idx = 2 -> PFX_SYSTEM

\* The body of the loop over the prefixes in load_prod_keys, for one index.
kaek_line(self, idx, name, value) ==
  LET gen_str == strip_prefix(name, kaek_prefix(idx))
      generation == from_str_radix_16(gen_str.val)
      key == decode_hex_16(value)
  IN  IF gen_str.some /\ generation.some /\ key.some /\ generation.val < MAX_KEY_GENERATION
      THEN [self EXCEPT !.kaek[idx][generation.val] = Some(key.val)]
      ELSE self

\* The body of the loop of load_prod_keys for one line.
prod_line(self, raw) ==
  LET line == trim(raw)
      parts == split_once(line, 61)
      name == trim(parts.val[1])
      value == trim(parts.val[2])
  IN  IF line = <<>> \/ line[1] = 59 THEN self
      ELSE IF ~parts.some THEN self
      ELSE IF name = HEADER_KEY_NAME
      THEN IF decode_hex_32(value).some
           THEN [self EXCEPT !.header_key = Some(decode_hex_32(value).val)]
           ELSE self
      ELSE kaek_line(kaek_line(kaek_line(self, 0, name, value), 1, name, value),
                     2, name, value)

\* The body of the loop of load_title_keys for one line; insert replaces
\* the key of a rights id that is there.
title_line(self, raw) ==
  LET line == trim(raw)
      parts == split_once(line, 61)
      r == decode_hex_16(trim(parts.val[1]))
      k == decode_hex_16(trim(parts.val[2]))
  IN  IF line = <<>> \/ line[1] = 59 THEN self
      ELSE IF ~parts.some THEN self
      ELSE IF r.some /\ k.some
      THEN [self EXCEPT !.title_keys =
              {e \in self.title_keys : e[1] # r.val} \cup {<<r.val, k.val>>}]
      ELSE self

\* KeySet::load_prod_keys and load_title_keys on the lines of a reader: the
\* KeySet afterwards and the result, "ok" or "Io" (a line that
\* BufRead::lines cannot decode returns at once).
RECURSIVE load_keys(_, _, _)
load_keys(self, loader, lines) ==
  IF lines = <<>> THEN [set |-> self, res |-> "ok"]
  ELSE IF ~is_utf8(Head(lines)) THEN [set |-> self, res |-> "Io"]
  ELSE load_keys(IF loader = "prod" THEN prod_line(self, Head(lines))
                 ELSE title_line(self, Head(lines)),
                 loader, Tail(lines))

load_prod_keys(self, lines) == load_keys(self, "prod", lines)
load_title_keys(self, lines) == load_keys(self, "title", lines)

\* KeySet::get_kaek, generation being a u8.
get_kaek(self, index, generation) ==
  IF generation >= MAX_KEY_GENERATION THEN None
  ELSE self.kaek[index][generation]

-----------------------------------------------------------------------------
(* The single-block cipher: encrypt a block, then decrypt the result.       *)

MaxKeyId == 5
MaxBlockId == 5

\* AesKey(0) and AesBlock(0) are the key and plaintext of FIPS-197 appendix C.1.
AesKey(i) == Pattern((i * 85) % 256, 1 + 6 * i, 16)
AesBlock(j) == Pattern((j * 51) % 256, 17 + 10 * j, 16)

AesInit ==
  /\ aes_pc = "start"
  /\ aes_key \in {AesKey(i) : i \in 0..MaxKeyId}
  /\ aes_block \in {AesBlock(j) : j \in 0..MaxBlockId}
  /\ aes_cipher = <<>>
  /\ aes_plain = <<>>
  /\ CtrIdle /\ HdrIdle /\ IoIdle /\ ArIdle /\ HashIdle /\ FontIdle /\ KsIdle /\ XtsIdle

Encrypt ==
  /\ aes_pc = "start"
  /\ aes_cipher' = aes128_encrypt_block(aes_block, key_expand(aes_key))
  /\ aes_pc' = "encrypted"
  /\ UNCHANGED <<aes_key, aes_block, aes_plain, aesOthers>>

DecryptEcb ==
  /\ aes_pc = "encrypted"
  /\ aes_plain' = decrypt_block_ecb(aes_cipher, aes_key)
  /\ aes_pc' = "decrypted"
  /\ UNCHANGED <<aes_key, aes_block, aes_cipher, aesOthers>>

AesNext == Encrypt \/ DecryptEcb

SpecAes == AesInit /\ [][AesNext]_vars

\* C1: for every block b and key k, decrypting the encryption of b under the
\* expanded key of k gives b back, through aes128_decrypt_block and through
\* decrypt_block_ecb.
C1_DecryptInvertsEncrypt ==
  aes_pc = "decrypted" =>
    /\ aes_plain = aes_block
    /\ aes128_decrypt_block(aes_cipher, key_expand(aes_key)) = aes_block

C1_Witness == aes_pc = "decrypted" /\ aes_cipher # aes_block /\ aes_plain = aes_block

FipsKey == <<0, 1, 2, 3, 4, 5, 6, 7, 8, 9, 10, 11, 12, 13, 14, 15>>
FipsPlain == <<0, 17, 34, 51, 68, 85, 102, 119, 136, 153, 170, 187, 204, 221, 238, 255>>
FipsCipher == <<105, 196, 224, 216, 106, 123, 4, 48, 216, 205, 183, 128, 112, 180, 197, 90>>

\* C2: key 000102..0F and plaintext 001122..FF encrypt to 69C4E0D8 6A7B0430
\* D8CDB780 70B4C55A, the FIPS-197 vector, over 11 round keys.
C2_Fips197Vector ==
  (aes_pc # "start" /\ aes_key = FipsKey /\ aes_block = FipsPlain) =>
    /\ aes_cipher = FipsCipher
    /\ Len(key_expand(aes_key)) = 11 * 16

C2_Witness ==
  aes_pc = "encrypted" /\ aes_key = FipsKey /\ aes_block = FipsPlain /\ aes_cipher = FipsCipher

-----------------------------------------------------------------------------
(* AES-128-CTR: decrypt_section_ctr applied repeatedly to one buffer.       *)

MaxDataLen == 33
MaxCounterId == 4
MaxCtrKeyId == 1
MaxRuns == 2

CounterFE == <<255, 255, 255, 255, 255, 255, 255, 255, 255, 255, 255, 255, 255, 255, 255, 254>>
CounterFF == <<255, 255, 255, 255, 255, 255, 255, 255, 255, 255, 255, 255, 255, 255, 255, 255>>

\* Counters whose increments wrap all 128 bits, carry through two bytes, or are
\* built the way the callers do: [SecureValue | offset / 16], both big-endian.
CtrCounter(i) ==
  CASE i = 0 -> CounterFE
    [] i = 1 -> CounterFF
    [] i = 2 -> <<0, 0, 0, 0, 0, 0, 0, 0, 0, 0, 0, 0, 0, 0, 255, 255>>
    [] i = 3 -> <<1, 2, 3, 4, 5, 6, 7, 8, 0, 0, 0, 0, 0, 0, 0, 255>>
    [] OTHER -> Pattern((i * 37) % 256, 11, 16)

CtrData(kind, len) == IF kind = 0 THEN Pattern(0, 0, len) ELSE Pattern(7, 29, len)

CtrInit ==
  /\ ctr_key \in {AesKey(i) : i \in 0..MaxCtrKeyId}
  /\ ctr_counter \in {CtrCounter(i) : i \in 0..MaxCounterId}
  /\ ctr_data \in {CtrData(kind, len) : kind \in 0..1, len \in 0..MaxDataLen}
  /\ ctr_orig = ctr_data
  /\ ctr_runs = 0
  /\ AesIdle /\ HdrIdle /\ IoIdle /\ ArIdle /\ HashIdle /\ FontIdle /\ KsIdle /\ XtsIdle

DecryptSection ==
  /\ ctr_runs < MaxRuns
  /\ ctr_data' = decrypt_section_ctr(ctr_data, ctr_key, ctr_counter)
  /\ ctr_runs' = ctr_runs + 1
  /\ UNCHANGED <<ctr_key, ctr_counter, ctr_orig, ctrOthers>>

CtrNext == DecryptSection

SpecCtr == CtrInit /\ [][CtrNext]_vars

\* The 128-bit big-endian sum (counter + j) mod 2^128, digit by digit.
RECURSIVE AddBE(_, _, _)
AddBE(c, i, carry) ==
  IF i = 0 THEN c
  ELSE AddBE([c EXCEPT ![i] = (c[i] + carry) % 256], i - 1, (c[i] + carry) \div 256)

\* E_key((counter + j) mod 2^128) for the blocks j = 0 .. nblocks-1.
CtrKeystream(key, counter, nblocks) ==
  LET rk == key_expand(key)
  IN  SubSeq([j \in 1..nblocks |-> aes128_encrypt_block(AddBE(counter, 16, j - 1), rk)],
             1, nblocks)

CtrReference(data, key, counter) ==
  LET ks == CtrKeystream(key, counter, (Len(data) + 15) \div 16)
  IN  SubSeq([n \in 1..Len(data) |->
                xor(data[n], ks[((n - 1) \div 16) + 1][((n - 1) % 16) + 1])],
             1, Len(data))

\* C3: each run of decrypt_section_ctr XORs byte n of the buffer, for every
\* length, with byte n mod 16 of E_key((counter + n div 16) mod 2^128), the
\* counter read as a big-endian number, and leaves the caller's counter alone.
C3_CtrKeystream ==
  [][ctr_runs' = ctr_runs + 1 =>
       /\ ctr_data' = CtrReference(ctr_data, ctr_key, ctr_counter)
       /\ ctr_counter' = ctr_counter]_vars

C3_Witness ==
  /\ ctr_runs = 1 /\ Len(ctr_data) = MaxDataLen /\ ctr_counter = CounterFF
  /\ ctr_data # ctr_orig
  /\ ctr_data = CtrReference(ctr_orig, ctr_key, ctr_counter)

\* The buffer of the overflow scenario: 32 zero bytes under counter FF..FE,
\* after one run.
OverflowScenario ==
  ctr_runs = 1 /\ ctr_counter = CounterFE /\ ctr_orig = CtrData(0, 32)

\* C4, as stated: in the overflow scenario the 17th keystream byte is byte 0
\* of E_k(00..00).
C4_SecondBlockFromZeroCounter ==
  OverflowScenario =>
    ctr_data[17] = aes128_encrypt_block(Zeros16, key_expand(ctr_key))[1]

\* C4, amended: FF..FE + 1 is FF..FF, so in the overflow scenario the 17th
\* keystream byte is byte 0 of E_k(FF..FF); the counter wraps to 00..00 one
\* block later, so under the initial counter FF..FF the 17th keystream byte
\* is byte 0 of E_k(00..00).
C4_WrapAfterAllOnes ==
  /\ OverflowScenario =>
       ctr_data[17] = aes128_encrypt_block(CounterFF, key_expand(ctr_key))[1]
  /\ (ctr_runs = 1 /\ ctr_counter = CounterFF /\ ctr_orig = CtrData(0, 32)) =>
       ctr_data[17] = aes128_encrypt_block(Zeros16, key_expand(ctr_key))[1]

C4_Witness ==
  /\ OverflowScenario
  /\ ctr_data[17] = aes128_encrypt_block(CounterFF, key_expand(ctr_key))[1]
  /\ ctr_data[17] # aes128_encrypt_block(Zeros16, key_expand(ctr_key))[1]

\* C5: applying decrypt_section_ctr twice with the same key and counter leaves
\* the buffer as it was at first.
C5_CtrInvolution == ctr_runs % 2 = 0 => ctr_data = ctr_orig

C5_Witness ==
  ctr_runs = 2 /\ Len(ctr_data) = MaxDataLen /\ ctr_data = ctr_orig
    /\ decrypt_section_ctr(ctr_data, ctr_key, ctr_counter) # ctr_data

-----------------------------------------------------------------------------
(* NCA header decryption.  The encrypted inputs are made from known          *)
(* plaintexts by XTS encryption, stated here from the mode's definition:     *)
(* C_j = E_K1(P_j xor T_j) xor T_j, T_0 = E_K2(tweak), T_(j+1) = T_j * x.    *)

Zeros8 == <<0, 0, 0, 0, 0, 0, 0, 0>>

\* T * x: the 16 bytes as a 128-bit number with byte 0 least significant are
\* doubled modulo 2^128, and 0x87 is XORed into byte 0 when bit 127 was set.
RECURSIVE Double128(_, _, _)
Double128(t, i, carry) ==
  IF i > 16 THEN t
  ELSE Double128([t EXCEPT ![i] = (2 * t[i] + carry) % 256], i + 1, (2 * t[i] + carry) \div 256)

TimesX(t) ==
  LET d == Double128(t, 1, 0)
  IN  IF t[16] >= 128 THEN [d EXCEPT ![1] = xor(d[1], 135)] ELSE d

\* The tweaks T_0 .. T_(n-1) of sector s under the tweak key's round keys.
RECURSIVE TweakChain(_, _)
TweakChain(ts, n) ==
  IF Len(ts) = n THEN ts ELSE TweakChain(Append(ts, TimesX(ts[Len(ts)])), n)

SectorTweaks(k2, s) ==
  TweakChain(<<aes128_encrypt_block(Zeros8 \o to_be_bytes_u64(s), key_expand(k2))>>,
             SectorSize \div 16)

XtsEncryptSector(plain, k1, k2, s) ==
  LET rk1 == key_expand(k1)
      ts == SectorTweaks(k2, s)
      blocks == SubSeq([j \in 1..(SectorSize \div 16) |->
                  xor_block(
                    aes128_encrypt_block(
                      xor_block(SubSeq(plain, 16 * j - 15, 16 * j), ts[j]), rk1),
                    ts[j])], 1, SectorSize \div 16)
  IN  SubSeq([n \in 1..SectorSize |-> blocks[((n - 1) \div 16) + 1][((n - 1) % 16) + 1]],
             1, SectorSize)

\* The sector index each of the six sectors is encrypted with.
LayoutSectors(layout) ==
  IF layout = "fs_zero" THEN <<0, 1, 0, 0, 0, 0>> ELSE <<0, 1, 2, 3, 4, 5>>

Sector(bytes, i) == SubSeq(bytes, (i - 1) * SectorSize + 1, i * SectorSize)

XtsEncryptHeader(plain, key, layout) ==
  LET k1 == SubSeq(key, 1, 16)
      k2 == SubSeq(key, 17, 32)
      idx == LayoutSectors(layout)
  IN  XtsEncryptSector(Sector(plain, 1), k1, k2, idx[1])
        \o XtsEncryptSector(Sector(plain, 2), k1, k2, idx[2])
        \o XtsEncryptSector(Sector(plain, 3), k1, k2, idx[3])
        \o XtsEncryptSector(Sector(plain, 4), k1, k2, idx[4])
        \o XtsEncryptSector(Sector(plain, 5), k1, k2, idx[5])
        \o XtsEncryptSector(Sector(plain, 6), k1, k2, idx[6])

MaxHdrCase == 39
MaxShortCase == 11

\* "NCA0" .. "NCA4": the four known versions and an unknown one.
HdrMagic(i) == <<78, 67, 65, 48 + i>>

HdrKey(i) == Pattern((i * 113 + 5) % 256, 3 + 4 * i, 32)

\* A 0xC00-byte plaintext header region with the magic at offset 0x200.
HdrPlain(magic4, fill) ==
  SubSeq([n \in 1..HeaderSize |->
            IF n \in 513..516 THEN magic4[n - 512] ELSE (fill * 97 + 13 * n) % 256],
         1, HeaderSize)

\* Case c: magic c % 5, key (c \div 5) % 2, layout (c \div 10) % 2, fill c \div 20;
\* the cases with an odd fill carry trailing bytes after the 0xC00 region.
HdrCaseKey(c) == HdrKey((c \div 5) % 2)
HdrCaseLayout(c) == IF (c \div 10) % 2 = 0 THEN "contiguous" ELSE "fs_zero"
HdrCasePlain(c) == HdrPlain(HdrMagic(c % 5), c \div 20)
HdrCaseTrailing(c) == Pattern(c, 7, 3 * ((c \div 20) % 2))

\* Inputs shorter than 0xC00 bytes: 0, 0xBFF and lengths in between.
ShortLen(i) == IF i = 0 THEN 0 ELSE (HeaderSize - 1) - (((i - 1) * 383) % HeaderSize)

HdrInit ==
  /\ hdr_pc = "start"
  /\ hdr_out = [tag |-> "none", out |-> <<>>]
  /\ \/ \E c \in 0..MaxHdrCase :
          /\ hdr_key = HdrCaseKey(c)
          /\ hdr_plain = HdrCasePlain(c)
          /\ hdr_layout = HdrCaseLayout(c)
          /\ hdr_enc = XtsEncryptHeader(hdr_plain, hdr_key, hdr_layout) \o HdrCaseTrailing(c)
     \/ \E i \in 0..MaxShortCase :
          /\ hdr_key = HdrKey(i % 2)
          /\ hdr_plain = <<>>
          /\ hdr_layout = "none"
          /\ hdr_enc = Pattern(i, 5, ShortLen(i))
  /\ AesIdle /\ CtrIdle /\ IoIdle /\ ArIdle /\ HashIdle /\ FontIdle /\ KsIdle /\ XtsIdle

DecryptHeader ==
  /\ hdr_pc = "start"
  /\ hdr_out' = decrypt_header(hdr_enc, hdr_key)
  /\ hdr_pc' = "done"
  /\ UNCHANGED <<hdr_key, hdr_plain, hdr_layout, hdr_enc, hdrOthers>>

HdrNext == DecryptHeader

SpecHeader == HdrInit /\ [][HdrNext]_vars

HdrKey1 == SubSeq(hdr_key, 1, 16)
HdrKey2 == SubSeq(hdr_key, 17, 32)

\* C6: decrypt_header decrypts the first two sectors with sector numbers 0
\* and 1 under K1 = key bytes 0..15 and K2 = key bytes 16..31; the four
\* sectors from 0x400 are decrypted with sector number 0 if and only if the
\* decrypted bytes 0x200..0x204 are "NCA2", and with 2, 3, 4, 5 otherwise.
C6_HeaderSectorNumbers ==
  (hdr_pc = "done" /\ hdr_out.tag = "ok") =>
    LET out == hdr_out.out
        nca2 == SubSeq(out, 513, 516) = Nca2Magic
    IN  /\ Len(out) = HeaderSize
        /\ Sector(out, 1) = xts_decrypt_sector(Sector(hdr_enc, 1), HdrKey1, HdrKey2, 0)
        /\ Sector(out, 2) = xts_decrypt_sector(Sector(hdr_enc, 2), HdrKey1, HdrKey2, 1)
        /\ \A fs \in 0..3 :
             Sector(out, fs + 3) =
               xts_decrypt_sector(Sector(hdr_enc, fs + 3), HdrKey1, HdrKey2,
                                  IF nca2 THEN 0 ELSE fs + 2)

C6_Witness ==
  /\ hdr_pc = "done" /\ hdr_out.tag = "ok"
  /\ SubSeq(hdr_out.out, 513, 516) = Nca2Magic
  /\ Sector(hdr_out.out, 4) = xts_decrypt_sector(Sector(hdr_enc, 4), HdrKey1, HdrKey2, 0)
  /\ Sector(hdr_out.out, 4) # xts_decrypt_sector(Sector(hdr_enc, 4), HdrKey1, HdrKey2, 3)

Nca3Magic == <<78, 67, 65, 51>>

\* The input is the XTS encryption of hdr_plain, as HdrInit made it, in the
\* numbering of its magic.
HdrEncryptedPerMagic ==
  /\ Len(hdr_plain) = HeaderSize /\ Len(hdr_enc) = HeaderSize
  /\ \/ SubSeq(hdr_plain, 513, 516) = Nca3Magic /\ hdr_layout = "contiguous"
     \/ SubSeq(hdr_plain, 513, 516) = Nca2Magic /\ hdr_layout = "fs_zero"

\* C7: a 0xC00-byte plaintext XTS-encrypted with tweak [8 zero bytes |
\* big-endian sector number], numbered 0..5 under magic "NCA3" and 0, 1, 0, 0,
\* 0, 0 under magic "NCA2", is given back by decrypt_header.
C7_HeaderRoundTrip ==
  (hdr_pc = "done" /\ HdrEncryptedPerMagic) =>
    (hdr_out.tag = "ok" /\ hdr_out.out = hdr_plain)

C7_Witness ==
  /\ hdr_pc = "done" /\ hdr_layout = "contiguous" /\ Len(hdr_enc) = HeaderSize
  /\ SubSeq(hdr_plain, 513, 516) = Nca3Magic
  /\ hdr_out.out = hdr_plain /\ hdr_enc # hdr_plain

-----------------------------------------------------------------------------
(* Typed reads applied one after another to a stream.                       *)

MaxBufLen == 16
MaxVecLen == 3

Pfs0Magic == <<80, 70, 83, 48>>

\* Streams of every length up to MaxBufLen; some begin with "PFS0".
IoStream(kind, len) ==
  IF kind = 0 THEN Pattern(201, 9, len) ELSE SubSeq(Pfs0Magic \o Pattern(1, 1, len), 1, len)

IoInit ==
  /\ io_buf \in {IoStream(kind, len) : kind \in 0..1, len \in 0..MaxBufLen}
  /\ io_pos = 0
  /\ io_op = NoOp
  /\ io_res = NoResult
  /\ io_val = <<>>
  /\ AesIdle /\ CtrIdle /\ HdrIdle /\ ArIdle /\ HashIdle /\ FontIdle /\ KsIdle /\ XtsIdle

\* One typed read with result r.  After a failed read_exact the position is
\* unspecified by Read; a Cursor leaves it or moves it to the end of the data.
TypedRead(kind, n, r) ==
  /\ io_op' = [kind |-> kind, n |-> n, from |-> io_pos]
  /\ io_res' = [tag |-> r.tag, err |-> r.err]
  /\ io_val' = r.val
  /\ IF r.tag = "err" /\ r.err = FromIoError
     THEN io_pos' \in {io_pos, Len(io_buf)}
     ELSE io_pos' = r.pos
  /\ UNCHANGED <<io_buf, ioOthers>>

ReadU8 == TypedRead("u8", 1, u8(io_buf, io_pos))
ReadLeU16 == TypedRead("le_u16", 2, le_u16(io_buf, io_pos))
ReadLeU32 == TypedRead("le_u32", 4, le_u32(io_buf, io_pos))
ReadLeU64 == TypedRead("le_u64", 8, le_u64(io_buf, io_pos))
ReadBeU16 == TypedRead("be_u16", 2, be_u16(io_buf, io_pos))
ReadBeU32 == TypedRead("be_u32", 4, be_u32(io_buf, io_pos))
ReadEndU16 == \E le \in BOOLEAN : TypedRead("end_u16", 2, end_u16(io_buf, io_pos, le))
ReadEndU32 == \E le \in BOOLEAN : TypedRead("end_u32", 4, end_u32(io_buf, io_pos, le))
ReadBytesA == \E n \in {7, 16} : TypedRead("bytesa", n, bytesa(io_buf, io_pos, n))
ReadBytesV == \E len \in 0..MaxVecLen : TypedRead("bytesv", len, bytesv(io_buf, io_pos, len))
ReadMagic == TypedRead("magic", 4, magic(io_buf, io_pos, Pfs0Magic))

IoNext ==
  \/ ReadU8 \/ ReadLeU16 \/ ReadLeU32 \/ ReadLeU64 \/ ReadBeU16 \/ ReadBeU32
  \/ ReadEndU16 \/ ReadEndU32 \/ ReadBytesA \/ ReadBytesV \/ ReadMagic

SpecIo == IoInit /\ [][IoNext]_vars

\* The stream ended before the bytes the last read promises.
IoShort == Len(io_buf) - io_op.from < io_op.n

\* C9, as stated: a typed read consumes exactly the bytes it promises and
\* succeeds (magic may instead report a mismatch), or, when the stream ends
\* before that many bytes, fails with the variant UnexpectedEof.
C9_ExactOrUnexpectedEof ==
  io_op.kind # "none" =>
    IF IoShort THEN io_res = [tag |-> "err", err |-> "UnexpectedEof"]
    ELSE /\ io_pos = io_op.from + io_op.n
         /\ \/ io_res.tag = "ok"
            \/ io_op.kind = "magic" /\ io_res = [tag |-> "err", err |-> "BadMagic"]

\* What the code does on a short stream: the error is the variant Io.
C9_ShortReadIsIo ==
  (io_op.kind # "none" /\ IoShort) => io_res = [tag |-> "err", err |-> "Io"]

-----------------------------------------------------------------------------
(* The archive parsers on generated streams: a well-formed archive or       *)
(* section header at some base, or one damaged in a chosen way.              *)

MaxFiles == 2
MaxEntryId == 2
MaxTableId == 3
MaxShapeId == 5
MaxBase == 3

U64Max == <<255, 255, 255, 255, 255, 255, 255, 255>>
U32Max == <<255, 255, 255, 255>>

to_le_bytes(v) == Reverse(v)
U32(n) == SubSeq(NumFromNat(n), 5, 8)

\* The entry pool: (offset, size, name offset).
ArEntry(id) ==
  CASE id = 0 -> [offset |-> NumFromNat(0), size |-> NumFromNat(4), name_offset |-> U32(0)]
    [] id = 1 -> [offset |-> NumFromNat(4), size |-> NumFromNat(6), name_offset |-> U32(2)]
    [] id = 2 -> [offset |-> U64Max, size |-> NumFromNat(3), name_offset |-> U32(4)]
    [] OTHER -> [offset |-> NumFromNat(id), size |-> NumFromNat(300 * id),
                 name_offset |-> U32(id + 2)]

\* The string tables: "a\0b\0", "ab" (unterminated), one with a byte that is
\* not UTF-8 and an empty name, and the empty table.
ArTable(id) ==
  CASE id = 0 -> <<97, 0, 98, 0>>
    [] id = 1 -> <<97, 98>>
    [] id = 2 -> <<255, 65, 0, 0, 66, 0>>
    [] id = 3 -> <<>>
    [] OTHER -> <<99, 100, 0, 101, 0, 102, 0>>

ArSha(id) == Pattern(id, 3, 32)

Pfs0EntryBytes(id) ==
  to_le_bytes(ArEntry(id).offset) \o to_le_bytes(ArEntry(id).size)
    \o to_le_bytes(ArEntry(id).name_offset) \o <<0, 0, 0, 0>>

Hfs0EntryBytes(id) ==
  to_le_bytes(ArEntry(id).offset) \o to_le_bytes(ArEntry(id).size)
    \o to_le_bytes(ArEntry(id).name_offset) \o to_le_bytes(U32(id + 1))
    \o <<0, 0, 0, 0, 0, 0, 0, 0>> \o ArSha(id)

NczSectionBytes(id) ==
  to_le_bytes(ArEntry(id).offset) \o to_le_bytes(ArEntry(id).size)
    \o <<3 + id, 0, 0, 0, 0, 0, 0, 0>> \o Pattern(id, 5, 16) \o Pattern(id, 7, 16)

RECURSIVE Flatten(_)
Flatten(rows) == IF rows = <<>> THEN <<>> ELSE Head(rows) \o Flatten(Tail(rows))

ArData == <<65, 65, 65, 65, 66, 66, 66, 66, 66, 66>>

\* The archive bytes for entry ids, a string table and a shape: 0 as it
\* should be, 1 a wrong magic, 2 a count field of all ones, 3 cut one byte
\* before the end of the string table (or section table), 4 cut inside the
\* fixed header, 5 a string table size (or section count 2^32) beyond the stream.
ArBytes(kind, ids, table, shape) ==
  LET n == IF shape = 2 THEN U32Max ELSE U32(Len(ids))
      s == IF shape = 5 THEN U32Max ELSE U32(Len(table))
      head == IF kind = "ncz"
              THEN <<78, 67, 90, 83, 69, 67, 84, 78>>
                     \o (IF shape = 2 THEN U64Max
                         ELSE IF shape = 5 THEN <<0, 0, 0, 0, 1, 0, 0, 0>>
                         ELSE to_le_bytes(NumFromNat(Len(ids))))
              ELSE (IF kind = "pfs0" THEN <<80, 70, 83, 48>> ELSE <<72, 70, 83, 48>>)
                     \o to_le_bytes(n) \o to_le_bytes(s) \o <<0, 0, 0, 0>>
      rows == SubSeq([i \in 1..Len(ids) |->
                        IF kind = "ncz" THEN NczSectionBytes(ids[i])
                        ELSE IF kind = "pfs0" THEN Pfs0EntryBytes(ids[i])
                        ELSE Hfs0EntryBytes(ids[i])], 1, Len(ids))
      meta == head \o Flatten(rows) \o (IF kind = "ncz" THEN <<>> ELSE table)
  IN  CASE shape = 1 -> <<88>> \o Tail(meta) \o ArData
        [] shape = 3 -> SubSeq(meta, 1, Len(meta) - 1)
        [] shape = 4 -> SubSeq(meta, 1, 6)
        [] OTHER -> meta \o ArData

ArPadding(base) == Pattern(238, 0, base)

\* The SARC entry pool: (hash, name attrs, data start, data end).  Entry 2 is
\* nameless and ends before it starts.
SarcEntry(id) ==
  CASE id = 0 -> [hash |-> U32(97), name_attrs |-> <<1, 0, 0, 0>>,
                  data_start |-> U32(0), data_end |-> U32(4)]
    [] id = 1 -> [hash |-> U32(98), name_attrs |-> <<1, 0, 0, 1>>,
                  data_start |-> U32(4), data_end |-> U32(10)]
    [] id = 2 -> [hash |-> U32Max, name_attrs |-> <<0, 0, 0, 0>>,
                  data_start |-> U32(8), data_end |-> U32(2)]
    [] OTHER -> [hash |-> U32(id), name_attrs |-> <<1, 0, 0, id>>,
                 data_start |-> U32(id), data_end |-> U32(300 * id)]

\* The SARC name tables, names at multiples of four bytes: "a" and "b", an
\* unterminated "abcd", one with a byte that is not UTF-8, the empty table.
SarcTable(id) ==
  CASE id = 0 -> <<97, 0, 0, 0, 98, 0, 0, 0>>
    [] id = 1 -> <<97, 98, 99, 100>>
    [] id = 2 -> <<255, 65, 0, 0, 66, 0, 0, 0>>
    [] id = 3 -> <<>>
    [] OTHER -> <<99, 100, 0, 0, 101, 0, 0, 0, 102, 0, 0, 0, 103, 0, 0, 0>>

\* A field of a SARC archive written in a byte order.
U16(n) == <<n \div 256, n % 256>>
to_bytes(v, le) == IF le THEN to_le_bytes(v) ELSE v

SarcData == ArData \o <<0>>
SarcAlign == 8

\* The SARC bytes for entry ids, a name table and a shape, the fields that
\* Sarc::parse reads by the byte-order mark written in the order le and the
\* four it reads little-endian (header size, version, SFAT size, SFNT size)
\* in the order sizes_le.  The payload begins at the next multiple of
\* SarcAlign after the name table, where the DataOffset field points.
\* Shapes: 0 as it should be, 1 a wrong magic, 2 a file count of 0xFFFF, 3 cut
\* one byte before the end of the name table, 4 cut inside the header, 5 a
\* DataOffset field of zero.
SarcBytes(ids, table, shape, le, sizes_le) ==
  LET implicit == 20 + 12 + 16 * Len(ids) + 8 + Len(table)
      data_offset == ((implicit + SarcAlign - 1) \div SarcAlign) * SarcAlign
      rows == SubSeq([i \in 1..Len(ids) |->
                        to_bytes(SarcEntry(ids[i]).hash, le)
                          \o to_bytes(SarcEntry(ids[i]).name_attrs, le)
                          \o to_bytes(SarcEntry(ids[i]).data_start, le)
                          \o to_bytes(SarcEntry(ids[i]).data_end, le)], 1, Len(ids))
      meta == <<83, 65, 82, 67>> \o to_bytes(U16(20), sizes_le)
                \o (IF le THEN <<254, 255>> ELSE <<255, 254>>)
                \o to_bytes(U32(data_offset + Len(SarcData)), le)
                \o to_bytes(U32(IF shape = 5 THEN 0 ELSE data_offset), le)
                \o to_bytes(U16(256), sizes_le) \o <<0, 0>>
                \o <<83, 70, 65, 84>> \o to_bytes(U16(12), sizes_le)
                \o to_bytes(IF shape = 2 THEN <<255, 255>> ELSE U16(Len(ids)), le)
                \o to_bytes(U32(101), le)
                \o Flatten(rows)
                \o <<83, 70, 78, 84>> \o to_bytes(U16(8), sizes_le) \o <<0, 0>>
                \o table
      padded == meta \o Pattern(0, 0, data_offset - implicit)
  IN  CASE shape = 1 -> <<88>> \o Tail(padded) \o SarcData
        [] shape = 3 -> SubSeq(meta, 1, Len(meta) - 1)
        [] shape = 4 -> SubSeq(meta, 1, 6)
        [] OTHER -> padded \o SarcData

\* Whether every named entry of ids has its name, terminator included, in
\* the name table, as a writer that serialises names lays them out.
SarcNamesInTable(ids, table) ==
  \A i \in 1..Len(ids) :
    LET attrs == SarcEntry(ids[i]).name_attrs
    IN  attrs[1] = 0 \/ \E k \in (4 * attrs[4] + 1)..Len(table) : table[k] = 0

\* How a SARC stream was written, and the same content with the other
\* byte-order mark, as the layout of sarc.rs has it: the fields marked
\* "endian per BOM" in the other order, the four sizes little-endian.
SarcGen(base, ids, table, shape, le, sizes_le) ==
  [order |-> IF le THEN "le" ELSE IF sizes_le THEN "mixed" ELSE "be", shape |-> shape,
   serial |-> SarcNamesInTable(ids, table),
   names_end |-> base + 40 + 16 * Len(ids) + Len(table),
   twin |-> ArPadding(base) \o SarcBytes(ids, table, shape, ~le, TRUE)]

Init ==
  /\ ar_kind \in {"pfs0", "hfs0", "ncz", "sarc"}
  /\ ar_base \in {0, MaxBase}
  /\ \E n \in 0..MaxFiles : \E ids \in [1..n -> 0..MaxEntryId] :
       \E t \in 0..MaxTableId : \E shape \in 0..MaxShapeId :
         IF ar_kind = "sarc"
         THEN \E le \in BOOLEAN : \E sizes_le \in {TRUE, le} :
                /\ ar_buf = ArPadding(ar_base)
                              \o SarcBytes(ids, SarcTable(t), shape, le, sizes_le)
                /\ ar_gen = SarcGen(ar_base, ids, SarcTable(t), shape, le, sizes_le)
         ELSE /\ ar_buf = ArPadding(ar_base) \o ArBytes(ar_kind, ids, ArTable(t), shape)
              /\ ar_gen = [order |-> "le", shape |-> shape, serial |-> FALSE,
                          names_end |-> 0, twin |-> <<>>]
  /\ ar_pc = "start"
  /\ ar_res = NotRun
  /\ ar_read = NotRun
  /\ ar_view = NotRun
  /\ AesIdle /\ CtrIdle /\ HdrIdle /\ IoIdle /\ HashIdle /\ FontIdle /\ KsIdle /\ XtsIdle

Parse ==
  /\ ar_pc = "start"
  /\ ar_res' = CASE ar_kind = "pfs0" -> Pfs0_parse(ar_buf, ar_base)
                 [] ar_kind = "hfs0" -> Hfs0_parse(ar_buf, ar_base)
                 [] ar_kind = "sarc" -> Sarc_parse(ar_buf, ar_base)
                 [] OTHER -> NczHeader_parse(ar_buf, ar_base)
  /\ ar_pc' = "parsed"
  /\ UNCHANGED <<ar_kind, ar_buf, ar_gen, ar_base, ar_read, ar_view, arOthers>>

MaxChunk == 4

\* read_file on an entry of the parsed descriptor, in either build; the view
\* it returns has not been read yet.
ReadFile ==
  /\ ar_pc = "parsed" /\ ar_kind \in {"pfs0", "hfs0", "sarc"} /\ ar_res.tag = "ok"
  /\ \E i \in 1..Len(ar_res.files) : \E overflow_checks \in BOOLEAN :
       LET read == IF ar_kind = "sarc"
                   THEN sarc_read_file(ar_buf, ar_res.data_offset, ar_res.files[i],
                                       overflow_checks)
                   ELSE read_file(ar_buf, ar_res.data_offset, ar_res.files[i],
                                  overflow_checks)
       IN  /\ ar_read' = [file |-> i] @@ read
           /\ ar_view' = IF read.tag = "ok" THEN take(read) ELSE NotRun
  /\ UNCHANGED <<ar_kind, ar_buf, ar_gen, ar_base, ar_pc, ar_res, arOthers>>

\* Read::read on the view with a buffer of len bytes: the source delivers
\* some of the bytes asked of it, all of them or fewer, and none only when
\* none is asked or it has none left.
ViewRead ==
  /\ ar_pc = "parsed" /\ ar_read.tag = "ok"
  /\ \E len \in 1..MaxChunk :
       \E n \in (IF take_max(ar_buf, ar_view, len) = 0 THEN 0 ELSE 1)
                   ..take_max(ar_buf, ar_view, len) :
         ar_view' = take_read(ar_buf, ar_view, n)
  /\ UNCHANGED <<ar_kind, ar_buf, ar_gen, ar_base, ar_pc, ar_res, ar_read, arOthers>>

Next == Parse \/ ReadFile \/ ViewRead

Spec == Init /\ [][Next]_vars

\* C8, as stated: no parser and no read_file panics, whatever the bytes.
C8_NoPanicOnMalformedBytes == ar_res.tag # "panic" /\ ar_read.tag # "panic"

\* The little-endian field of the stream at a 0-based offset: its bytes, most
\* significant first, and its value when below 2^24.
FieldBytes(at, width) == SubSeq([k \in 1..width |-> ar_buf[at + width + 1 - k]], 1, width)
FieldValue(at) == ar_buf[at + 1] + 256 * ar_buf[at + 2] + 65536 * ar_buf[at + 3]

ArStride == IF ar_kind = "pfs0" THEN 24 ELSE 64

\* C10: a successful Pfs0::parse or Hfs0::parse at position base, on a header
\* with file_count n and string_table_size s, returns n entries in table
\* order, each with the entry's offset and size and the name decoded from the
\* string-table bytes between its name offset and the first zero byte, and
\* data_offset = base + 0x10 + n * stride + s (stride 0x18 or 0x40).
C10_ArchiveDescriptor ==
  (ar_pc = "parsed" /\ ar_kind \in {"pfs0", "hfs0"} /\ ar_res.tag = "ok") =>
    LET n == FieldValue(ar_base + 4)
        s == FieldValue(ar_base + 8)
        table_at == ar_base + 16 + n * ArStride
        table == SubSeq(ar_buf, table_at + 1, table_at + s)
    IN  /\ ar_buf[ar_base + 8] = 0 /\ ar_buf[ar_base + 12] = 0
        /\ Len(ar_res.files) = n
        /\ \A i \in 1..n :
             LET at == ar_base + 16 + (i - 1) * ArStride
                 name_at == FieldValue(at + 16)
             IN  /\ ar_res.files[i].offset = FieldBytes(at, 8)
                 /\ ar_res.files[i].size = FieldBytes(at + 8, 8)
                 /\ \E end \in (name_at + 1)..s :
                      /\ table[end] = 0
                      /\ \A j \in (name_at + 1)..(end - 1) : table[j] # 0
                      /\ ar_res.files[i].name =
                           from_utf8_lossy(SubSeq(table, name_at + 1, end - 1))
        /\ ar_res.data_offset = NumFromNat(ar_base + 16 + n * ArStride + s)

C10_Witness ==
  /\ ar_pc = "parsed" /\ ar_kind = "hfs0" /\ ar_res.tag = "ok" /\ ar_base = MaxBase
  /\ Len(ar_res.files) = 2
  /\ ar_res.files[1].name = <<97>> /\ ar_res.files[2].name = <<98>>
  /\ ar_res.data_offset = NumFromNat(MaxBase + 16 + 2 * 64 + 4)

-----------------------------------------------------------------------------
(* SARC: the data offset.                                                   *)

SarcParsed == ar_pc = "parsed" /\ ar_kind = "sarc" /\ ar_res.tag = "ok"

\* The field of the stream at a 0-based offset that Sarc::parse reads in the
\* byte order of the descriptor, most significant byte first.
SarcField(at, width) ==
  IF ar_res.le THEN FieldBytes(at, width) ELSE SubSeq(ar_buf, at + 1, at + width)

\* C11, as stated: a successful Sarc::parse reports the position where the
\* name table ends (start + headers + entry table + name table) as
\* data_offset, not a field of the header.
C11_SarcDataOffsetImplicit ==
  SarcParsed => ar_res.data_offset = NumFromNat(ar_gen.names_end)

\* C11, amended: a successful Sarc::parse reports as data_offset its starting
\* position plus the DataOffset field at 0x0C of the SARC header, read in
\* the byte order of the archive, wherever the name table ends.
C11_SarcDataOffsetField ==
  SarcParsed =>
    /\ NumIsSmall(SarcField(ar_base + 12, 4))
    /\ ar_res.data_offset = NumFromNat(ar_base + NumToNat(SarcField(ar_base + 12, 4)))

C11_Witness ==
  /\ SarcParsed /\ ar_base = MaxBase /\ ar_gen.shape = 0 /\ Len(ar_res.files) = 2
  /\ ar_gen.names_end = MaxBase + 76
  /\ ar_res.data_offset = NumFromNat(MaxBase + 80)

-----------------------------------------------------------------------------
(* The bytes a parser reads.                                                *)

ArchiveParsed ==
  ar_pc = "parsed" /\ ar_kind \in {"pfs0", "hfs0", "sarc"} /\ ar_res.tag = "ok"

\* C12, as stated: a successful Pfs0::parse, Hfs0::parse or Sarc::parse has
\* read no byte at a position at or beyond the data_offset it reports, and
\* Pfs0::parse and Hfs0::parse leave the stream at data_offset.
C12_NoPayloadByteRead ==
  ArchiveParsed =>
    /\ ~NumLess(ar_res.data_offset, NumFromNat(ar_res.read_end))
    /\ ar_kind \in {"pfs0", "hfs0"} => NumFromNat(ar_res.pos) = ar_res.data_offset

\* What holds of PFS0 and HFS0: the parser reads up to data_offset and stops
\* there.
C12_Pfs0Hfs0StopAtData ==
  (ArchiveParsed /\ ar_kind \in {"pfs0", "hfs0"}) =>
    /\ NumFromNat(ar_res.read_end) = ar_res.data_offset
    /\ NumFromNat(ar_res.pos) = ar_res.data_offset

\* A SARC as it should be, whose name offset runs into the payload.
C12_SarcNameFromPayload ==
  /\ ArchiveParsed /\ ar_kind = "sarc" /\ ar_gen.shape = 0
  /\ NumLess(ar_res.data_offset, NumFromNat(ar_res.read_end))

-----------------------------------------------------------------------------
(* The views of read_file.                                                  *)

\* The entry of the last read_file: its offset in the data region and its size.
ReadOffset ==
  IF ar_kind = "sarc" THEN as_u64(ar_res.files[ar_read.file].data_start)
  ELSE ar_res.files[ar_read.file].offset

ReadSize ==
  IF ar_kind = "sarc"
  THEN (IF NumLess(ar_res.files[ar_read.file].data_end, ar_res.files[ar_read.file].data_start)
        THEN NumFromNat(0)
        ELSE as_u64(NumSub(ar_res.files[ar_read.file].data_end,
                           ar_res.files[ar_read.file].data_start)))
  ELSE ar_res.files[ar_read.file].size

\* The bytes delivered so far are the source bytes from position start, and
\* they are no more than size.
ViewDelivers(start, size) ==
  /\ ~NumLess(size, NumFromNat(Len(ar_view.got)))
  /\ \/ ar_view.got = <<>>
     \/ /\ NumIsSmall(start)
        /\ ar_view.got = SubSeq(ar_buf, NumToNat(start) + 1, NumToNat(start) + Len(ar_view.got))

\* C13, as stated: read_file(e) of every reader wrapper, for every entry e,
\* positions the source at data_offset + e.offset (SARC: data_start) and
\* returns a view that over any sequence of reads delivers exactly the source
\* bytes from that position, never more than e.size of them (SARC: data_end -
\* data_start, or 0), so that nothing is delivered once the bound is reached.
C13_BoundedViewAtOffset ==
  ar_read.tag # "none" =>
    /\ ar_read.tag = "ok"
    /\ ~NumAdd(ar_res.data_offset, ReadOffset).overflow
    /\ ar_read.start = NumAdd(ar_res.data_offset, ReadOffset).sum
    /\ ViewDelivers(NumAdd(ar_res.data_offset, ReadOffset).sum, ReadSize)

\* What holds of every view that read_file returns, wherever it starts: it
\* delivers the source bytes from its starting position, at most size of
\* them, and its limit is what is left of size.
C13_ViewBounded ==
  ar_read.tag = "ok" =>
    /\ ViewDelivers(ar_read.start, ReadSize)
    /\ ar_view.limit = NumSub(ReadSize, NumFromNat(Len(ar_view.got)))

\* A view read to its bound on a source that has more bytes, and read again.
C13_BoundReached ==
  /\ ar_read.tag = "ok" /\ ar_view.limit = NumFromNat(0) /\ ar_view.last = 0
  /\ Len(ar_view.got) = 6 /\ available(ar_buf, ar_view.pos) > 0

-----------------------------------------------------------------------------
(* Nca::parse and section_offset on generated decrypted headers.            *)

MaxMagicId == 7
MaxFsId == 4
MaxCutId == 3
MaxSection == 5

\* The magics: NCA0 to NCA3, then four that are none of them.
NcaMagic(id) ==
  CASE id \in 0..3 -> <<78, 67, 65, 48 + id>>
    [] id = 4 -> <<78, 67, 65, 52>>
    [] id = 5 -> <<78, 67, 66, 51>>
    [] id = 6 -> <<110, 99, 97, 51>>
    [] OTHER -> <<80, 70, 83, 48>>

\* The section entries: (start_block, end_block).
NcaFsEntry(id) ==
  CASE id % 5 = 0 -> [start_block |-> U32(0), end_block |-> U32(0)]
    [] id % 5 = 1 -> [start_block |-> U32(0), end_block |-> U32(5)]
    [] id % 5 = 2 -> [start_block |-> U32(6), end_block |-> U32(0)]
    [] id % 5 = 3 -> [start_block |-> U32Max, end_block |-> U32Max]
    [] OTHER -> [start_block |-> <<0, 128, 0, 1>>, end_block |-> <<0, 128, 0, 2>>]

\* A decrypted NCA header of 0x340 bytes: the signatures, the magic, the
\* fields, and four section entries from the pool, beginning at entry fs.
NcaHeader(magic_id, fs) ==
  Pattern(1, 1, 512) \o NcaMagic(magic_id)
    \o <<magic_id % 3, fs, magic_id, 2>>
    \o to_le_bytes(NumFromNat(4096 + fs)) \o to_le_bytes(<<1, 0, 0, 0, 0, 0, 16, 0>>)
    \o to_le_bytes(U32(fs)) \o to_le_bytes(U32(magic_id)) \o <<fs, 0>> \o Pattern(0, 0, 14)
    \o Pattern(fs % 2, 0, 16)
    \o Flatten(SubSeq([i \in 1..4 |->
                         to_le_bytes(NcaFsEntry(fs + i - 1).start_block)
                           \o to_le_bytes(NcaFsEntry(fs + i - 1).end_block)
                           \o Pattern(0, 0, 8)], 1, 4))
    \o Pattern(fs, 1, 128) \o Pattern(magic_id, 3, 64)

\* The stream: the header as it is, followed by more bytes, cut one byte
\* short, or cut inside the magic.
NcaBytes(magic_id, fs, cut) ==
  CASE cut = 0 -> NcaHeader(magic_id, fs)
    [] cut = 2 -> SubSeq(NcaHeader(magic_id, fs), 1, 831)
    [] cut = 3 -> SubSeq(NcaHeader(magic_id, fs), 1, 514)
    [] OTHER -> NcaHeader(magic_id, fs) \o Pattern(9, 9, 5)

NcaInit ==
  /\ ar_kind = "nca"
  /\ ar_base \in {0, MaxBase}
  /\ \E magic_id \in 0..MaxMagicId : \E fs \in 0..MaxFsId : \E cut \in 0..MaxCutId :
       /\ ar_buf = ArPadding(ar_base) \o NcaBytes(magic_id, fs, cut)
       /\ ar_gen = [order |-> "le", shape |-> cut, names_end |-> 0, twin |-> <<>>]
  /\ ar_pc = "start"
  /\ ar_res = NotRun
  /\ ar_read = NotRun
  /\ ar_view = NotRun
  /\ AesIdle /\ CtrIdle /\ HdrIdle /\ IoIdle /\ HashIdle /\ FontIdle /\ KsIdle /\ XtsIdle

NcaParse ==
  /\ ar_pc = "start" /\ ar_kind = "nca"
  /\ ar_res' = Nca_parse(ar_buf, ar_base)
  /\ ar_pc' = "parsed"
  /\ UNCHANGED <<ar_kind, ar_buf, ar_gen, ar_base, ar_read, ar_view, arOthers>>

SectionOffset ==
  /\ ar_pc = "parsed" /\ ar_kind = "nca" /\ ar_res.tag = "ok"
  /\ \E section \in 0..MaxSection :
       ar_read' = [tag |-> "section", section |-> section,
                   res |-> section_offset(ar_res, section)]
  /\ UNCHANGED <<ar_kind, ar_buf, ar_gen, ar_base, ar_pc, ar_res, ar_view, arOthers>>

NcaNext == NcaParse \/ SectionOffset

SpecNca == NcaInit /\ [][NcaNext]_vars

NcaParsed == ar_pc = "parsed" /\ ar_kind = "nca"

\* The four bytes at 0x200 after the starting position.
NcaMagicBytes == SubSeq(ar_buf, ar_base + 513, ar_base + 516)

\* C14: on a stream with at least 0x340 bytes after the starting position,
\* Nca::parse returns a descriptor iff the four bytes at 0x200 are NCA0, NCA1,
\* NCA2 or NCA3, with the digit as version; any other magic fails with
\* BadMagic; nothing fails with UnsupportedVersion unless the version is
\* above 3, and no descriptor has a version above 3.
C14_NcaMagicAndVersion ==
  (NcaParsed /\ Len(ar_buf) - ar_base >= 832) =>
    /\ ar_res.tag = "ok" <=> NcaMagicBytes \in {NcaMagic(v) : v \in 0..3}
    /\ ar_res.tag = "ok" => NcaMagicBytes = NcaMagic(ar_res.version) /\ ar_res.version \in 0..3
    /\ ar_res.tag # "ok" => ar_res = [tag |-> "err", err |-> "BadMagic"]

C14_Witness ==
  /\ NcaParsed /\ ar_base = MaxBase /\ Len(ar_buf) - ar_base = 832
  /\ ar_res.tag = "ok" /\ ar_res.version = 2 /\ NcaMagicBytes = <<78, 67, 65, 50>>

\* The section entry i (from 0) as the stream has it, at 0x240 + 0x10 * i.
NcaStartBlock(i) == FieldBytes(ar_base + 576 + 16 * i, 4)
NcaEndBlock(i) == FieldBytes(ar_base + 580 + 16 * i, 4)

\* start * 0x200 for a 32-bit start, on eight bytes: a shift by nine bits.
Times512(start) ==
  <<0, 0, start[1] \div 128, ((start[1] * 2) % 256) + (start[2] \div 128),
    ((start[2] * 2) % 256) + (start[3] \div 128),
    ((start[3] * 2) % 256) + (start[4] \div 128), (start[4] * 2) % 256, 0>>

\* C15: for a parsed NCA, section_offset(i) for i in 0..3 is absent iff the
\* section's start_block and end_block are both zero, and is otherwise
\* start_block * 0x200 without wrap-around; for i >= 4 it is absent.
C15_SectionOffset ==
  (NcaParsed /\ ar_read.tag = "section") =>
    IF ar_read.section >= 4 THEN ~ar_read.res.some
    ELSE /\ ~ar_read.res.some <=>
              /\ NcaStartBlock(ar_read.section) = <<0, 0, 0, 0>>
              /\ NcaEndBlock(ar_read.section) = <<0, 0, 0, 0>>
         /\ ar_read.res.some => ar_read.res.val = Times512(NcaStartBlock(ar_read.section))

\* start_block = 0xFFFFFFFF gives 0x1FFFFFFFE00.
C15_Witness ==
  /\ NcaParsed /\ ar_read.tag = "section" /\ ar_read.section = 3
  /\ NcaStartBlock(3) = U32Max
  /\ ar_read.res = Some(<<0, 0, 1, 255, 255, 255, 254, 0>>)

-----------------------------------------------------------------------------
(* read_compressed_blocks, a turn of its loop at a time, on generated       *)
(* block streams.  ar_base is header.blocks_offset and ar_res holds the     *)
(* stream position, the blocks pushed so far and what the last read of a    *)
(* length returned.                                                         *)

MaxBlocks == 2
MaxBlockLen == 3
MaxTailId == 5

\* A block of len bytes with its length prefix.
BlockBytes(len) == to_le_bytes(U32(len)) \o Pattern(16 * len, 1, len)

\* What follows the blocks: nothing, a zero length and more bytes, two bytes
\* of a length, a block cut one byte short, a length of 2^32 - 1, or a zero
\* length alone.
BlockTail(id) ==
  CASE id = 0 -> <<>>
    [] id = 1 -> <<0, 0, 0, 0, 1, 0, 0, 0, 77>>
    [] id = 2 -> <<1, 0>>
    [] id = 3 -> <<3, 0, 0, 0, 88, 89>>
    [] id = 4 -> <<255, 255, 255, 255, 90>>
    [] OTHER -> <<0, 0, 0, 0>>

BlocksInit ==
  /\ ar_kind = "blocks"
  /\ \E n \in 0..MaxBlocks : \E lens \in [1..n -> 1..MaxBlockLen] : \E tail \in 0..MaxTailId :
       \E pad \in {0, MaxBase} :
         /\ ar_buf = ArPadding(pad)
                       \o Flatten(SubSeq([i \in 1..n |-> BlockBytes(lens[i])], 1, n))
                       \o BlockTail(tail)
         /\ ar_base \in {pad, Len(ar_buf), Len(ar_buf) + 2}
         /\ ar_gen = [order |-> "le", shape |-> tail, names_end |-> 0, twin |-> <<>>]
  /\ ar_pc = "start"
  /\ ar_res = NotRun
  /\ ar_read = NotRun
  /\ ar_view = NotRun
  /\ AesIdle /\ CtrIdle /\ HdrIdle /\ IoIdle /\ HashIdle /\ FontIdle /\ KsIdle /\ XtsIdle

\* r.seek(SeekFrom::Start(header.blocks_offset)) and the empty Vec.
BlocksSeek ==
  /\ ar_pc = "start" /\ ar_kind = "blocks"
  /\ ar_res' = [tag |-> "running", err |-> "", blocks |-> <<>>, pos |-> ar_base, last |-> 4]
  /\ ar_pc' = "loop"
  /\ UNCHANGED <<ar_kind, ar_buf, ar_gen, ar_base, ar_read, ar_view, arOthers>>

\* What one Read::read into four bytes may return at a position: an error,
\* nothing at the end of the stream, else one byte up to all that is there.
LengthReads(pos) ==
  {-1} \cup (IF pos >= Len(ar_buf) THEN {0}
             ELSE 1..(IF Len(ar_buf) - pos < 4 THEN Len(ar_buf) - pos ELSE 4))

\* One turn of the loop: it pushes a block, or leaves the loop with Ok(blocks)
\* or with the error of bytesv.
BlocksTurn ==
  /\ ar_pc = "loop"
  /\ \E n \in LengthReads(ar_res.pos) :
       LET turn == read_block(ar_buf, ar_res.pos, n)
       IN  /\ ar_res' = CASE turn.tag = "block" ->
                               [ar_res EXCEPT !.blocks = Append(@, turn.block),
                                              !.pos = turn.pos, !.last = n]
                           [] turn.tag = "break" ->
                               [ar_res EXCEPT !.tag = "ok", !.last = n]
                           [] OTHER ->
                               [tag |-> "err", err |-> FromIoError, blocks |-> <<>>,
                                pos |-> turn.pos, last |-> n]
           /\ ar_pc' = IF turn.tag = "block" THEN "loop" ELSE "done"
  /\ UNCHANGED <<ar_kind, ar_buf, ar_gen, ar_base, ar_read, ar_view, arOthers>>

BlocksNext == BlocksSeek \/ BlocksTurn

\* The loop is straight-line code: a turn that can be taken is taken.
SpecBlocks == BlocksInit /\ [][BlocksNext]_vars /\ WF_vars(BlocksNext)

\* The blocks pushed so far, each behind its little-endian length, are the
\* bytes of the stream from blocks_offset to the position of the loop, and
\* none of them is empty.
BlocksArePrefix ==
  /\ \A i \in 1..Len(ar_res.blocks) : ar_res.blocks[i] # <<>>
  /\ Flatten(SubSeq([i \in 1..Len(ar_res.blocks) |->
                       to_le_bytes(U32(Len(ar_res.blocks[i]))) \o ar_res.blocks[i]],
                    1, Len(ar_res.blocks)))
       = SubSeq(ar_buf, ar_base + 1, ar_res.pos)

\* The length at the position of the loop is zero.
ZeroLengthNext ==
  /\ ar_res.pos + 4 <= Len(ar_buf)
  /\ SubSeq(ar_buf, ar_res.pos + 1, ar_res.pos + 4) = <<0, 0, 0, 0>>

BlocksInOrder ==
  /\ (ar_kind = "blocks" /\ ar_pc \in {"loop", "done"} /\ ar_res.tag # "err") => BlocksArePrefix
  /\ (ar_kind = "blocks" /\ ar_pc = "done" /\ ar_res.tag = "ok") =>
        (ar_res.last # 4 \/ ZeroLengthNext)
  /\ (ar_kind = "blocks" /\ ar_pc = "done" /\ ar_res.tag = "err") => ar_res.last = 4

\* C16: read_compressed_blocks terminates on every finite stream; it returns
\* Ok with the blocks collected so far as soon as the read of a length yields
\* no byte, fewer than four bytes or an error, or the length is zero; till
\* then it reads exactly as many bytes as each length says and appends them
\* as one block, so that the blocks with their length prefixes are a
\* contiguous prefix of the stream from blocks_offset, in stream order.
C16_BlocksTerminateInOrder == []BlocksInOrder /\ <>(ar_pc = "done")

\* Two blocks returned, the enumeration ended by a zero length with bytes after it.
C16_Witness ==
  /\ ar_kind = "blocks" /\ ar_pc = "done" /\ ar_res.tag = "ok" /\ ar_base = MaxBase
  /\ Len(ar_res.blocks) = 2 /\ ar_res.last = 4 /\ ZeroLengthNext
  /\ ar_res.pos + 4 < Len(ar_buf)

-----------------------------------------------------------------------------
(* Npdm::parse on generated files: a META header, an ACI0 and an ACID.      *)

MaxAciCase == 3
MaxAcidCase == 5
MaxMetaCase == 2

NpdmAci(case) ==
  (IF case = 1 THEN <<65, 67, 73, 68>> ELSE <<65, 67, 73, 48>>) \o Pattern(0, 0, 12)
    \o to_le_bytes(<<1, 0, 0, 0, 0, 0, 32, case>>)

NpdmAcid(case) ==
  Pattern(5, 1, 512) \o (IF case = 2 THEN <<65, 67, 73, 48>> ELSE <<65, 67, 73, 68>>)
    \o to_le_bytes(U32(544)) \o to_le_bytes(U32(case)) \o <<0, 0, 0, 0>>
    \o to_le_bytes(<<1, 0, 0, 0, 0, 0, 0, 0>>) \o to_le_bytes(<<1, 0, 0, 0, 0, 0, 255, 255>>)

\* The file.  ACI0 cases: 0 as it should be, 1 a wrong magic, 2 cut three
\* bytes short, 3 an offset past the end.  ACID cases: 0 no ACID (offset 0),
\* 1 as it should be, 2 a wrong magic, 3 cut inside the public key, 4 cut one
\* byte short, 5 an offset past the end.  META cases: 0 as it should be, 1 a
\* wrong magic, 2 cut one byte short.  The region that is cut comes last.
NpdmBytes(meta, aci, acid) ==
  LET aci_bytes == IF aci = 2 THEN SubSeq(NpdmAci(aci), 1, 21) ELSE NpdmAci(aci)
      acid_bytes == CASE acid = 0 -> <<>>
                      [] acid = 3 -> SubSeq(NpdmAcid(acid), 1, 300)
                      [] acid = 4 -> SubSeq(NpdmAcid(acid), 1, 543)
                      [] OTHER -> NpdmAcid(acid)
      aci_last == aci = 2
      aci_at == IF aci = 3 THEN 4096 ELSE IF aci_last THEN 128 + Len(acid_bytes) ELSE 128
      acid_at == IF acid = 0 THEN 0 ELSE IF acid = 5 THEN 8192
                 ELSE IF aci_last THEN 128 ELSE 128 + Len(aci_bytes)
      head == (IF meta = 1 THEN <<77, 69, 84, 66>> ELSE <<77, 69, 84, 65>>)
                \o Pattern(0, 0, 8) \o <<1 + aci, 0, 44, 3>> \o Pattern(0, 0, 4)
                \o to_le_bytes(U32(4096)) \o to_le_bytes(U32(acid)) \o to_le_bytes(U32(65536))
                \o <<65, 112, 112>> \o Pattern(0, 0, 13) \o Pattern(80, 1, 16)
                \o Pattern(0, 0, 48)
                \o to_le_bytes(U32(aci_at)) \o to_le_bytes(U32(24))
                \o to_le_bytes(U32(acid_at)) \o to_le_bytes(U32(544))
  IN  IF meta = 2 THEN SubSeq(head, 1, 127)
      ELSE IF aci_last THEN head \o acid_bytes \o aci_bytes
      ELSE head \o aci_bytes \o acid_bytes

NpdmInit ==
  /\ ar_kind = "npdm"
  /\ ar_base \in {0, MaxBase}
  /\ \E meta \in 0..MaxMetaCase : \E aci \in 0..MaxAciCase : \E acid \in 0..MaxAcidCase :
       /\ ar_buf = ArPadding(ar_base) \o NpdmBytes(meta, aci, acid)
       /\ ar_gen = [order |-> "le", shape |-> <<meta, aci, acid>>, names_end |-> 0,
                    twin |-> <<>>]
  /\ ar_pc = "start"
  /\ ar_res = NotRun
  /\ ar_read = NotRun
  /\ ar_view = NotRun
  /\ AesIdle /\ CtrIdle /\ HdrIdle /\ IoIdle /\ HashIdle /\ FontIdle /\ KsIdle /\ XtsIdle

NpdmParse ==
  /\ ar_pc = "start" /\ ar_kind = "npdm"
  /\ ar_res' = Npdm_parse(ar_buf, ar_base)
  /\ ar_pc' = "parsed"
  /\ UNCHANGED <<ar_kind, ar_buf, ar_gen, ar_base, ar_read, ar_view, arOthers>>

NpdmNext == NpdmParse

SpecNpdm == NpdmInit /\ [][NpdmNext]_vars

\* The stream has n bytes at offset at of the file, beginning with the four
\* bytes of a magic at offset magic_at of them.
NpdmRegion(at, n, magic_at, magic4) ==
  /\ ar_base + at + n <= Len(ar_buf)
  /\ SubSeq(ar_buf, ar_base + at + magic_at + 1, ar_base + at + magic_at + 4) = magic4

NpdmAciOffset == FieldValue(ar_base + 112)
NpdmAcidOffset == FieldValue(ar_base + 120)

\* C17: with a valid META header and a valid ACI0 at base + aci_offset,
\* Npdm::parse succeeds whatever the ACID region holds: acid is absent when
\* acid_offset is 0 or when the 0x200 bytes, the "ACID" magic or the fields
\* after it cannot be read at base + acid_offset, and present with the
\* region's flags and program-id bounds otherwise.  A wrong "ACI0" magic or
\* a truncated ACI0 fails the whole parse.
C17_AcidBestEffortAciMandatory ==
  (ar_pc = "parsed" /\ ar_kind = "npdm" /\ NpdmRegion(0, 128, 0, <<77, 69, 84, 65>>)) =>
    IF NpdmRegion(NpdmAciOffset, 24, 0, <<65, 67, 73, 48>>)
    THEN /\ ar_res.tag = "ok"
         /\ ar_res.acid.some <=>
              /\ NpdmAcidOffset # 0
              /\ NpdmRegion(NpdmAcidOffset, 544, 512, <<65, 67, 73, 68>>)
         /\ ar_res.acid.some =>
              ar_res.acid.val =
                [flags |-> FieldBytes(ar_base + NpdmAcidOffset + 520, 4),
                 program_id_min |-> FieldBytes(ar_base + NpdmAcidOffset + 528, 8),
                 program_id_max |-> FieldBytes(ar_base + NpdmAcidOffset + 536, 8)]
    ELSE ar_res.tag = "err"

\* A valid ACI0 after an ACID whose magic is wrong: the parse succeeds
\* without an ACID.
C17_Witness ==
  /\ ar_pc = "parsed" /\ ar_kind = "npdm" /\ ar_res.tag = "ok" /\ ~ar_res.acid.some
  /\ NpdmAcidOffset = 152
  /\ NpdmRegion(NpdmAcidOffset, 544, 512, <<65, 67, 73, 48>>)
  /\ ar_res.aci.program_id = <<1, 0, 0, 0, 0, 0, 32, 0>>

-----------------------------------------------------------------------------
(* Xci::parse on generated card images, from several stream positions.      *)

MaxXciFiles == 1
MaxXciTableId == 1
MaxCardCase == 4

\* The card header at 0x1100, 0x60 bytes, pointing at the root HFS0.
CardHeader(case, hfs0_at, hfs0_len) ==
  (IF case = 1 THEN <<72, 69, 65, 88>> ELSE <<72, 69, 65, 68>>)
    \o to_le_bytes(U32(0)) \o U32Max \o <<16, 250 - case, 0, 1>>
    \o to_le_bytes(<<0, 0, 0, 0, 0, 0, 48, 57>>) \o to_le_bytes(U32(16777215))
    \o <<0, 0, 0, 0>> \o Pattern(3, 5, 16)
    \o to_le_bytes(IF case = 3 THEN U64Max ELSE NumFromNat(hfs0_at))
    \o to_le_bytes(NumFromNat(hfs0_len)) \o Pattern(7, 7, 32)

\* The image: the key area and the signature (0x1100 bytes), the card
\* header, and the root HFS0.  Cases: 0 the HFS0 right after the card header,
\* 1 a wrong magic, 2 the image cut inside the card header, 3 an HFS0 address
\* of 2^64 - 1, 4 the HFS0 at 0x1200.
XciBytes(case, hfs0) ==
  LET hfs0_at == IF case = 4 THEN 4608 ELSE 4448
      image == Pattern(2, 3, 4352) \o CardHeader(case, hfs0_at, Len(hfs0))
                 \o Pattern(0, 0, hfs0_at - 4448) \o hfs0
  IN  IF case = 2 THEN SubSeq(image, 1, 4400) ELSE image

XciInit ==
  /\ ar_kind = "xci"
  /\ \E case \in 0..MaxCardCase : \E n \in 0..MaxXciFiles :
       \E ids \in [1..n -> 0..MaxEntryId] : \E t \in 0..MaxXciTableId :
         \E shape \in 0..MaxShapeId :
           /\ ar_buf = XciBytes(case, ArBytes("hfs0", ids, ArTable(t), shape))
           /\ ar_gen = [order |-> "le", shape |-> <<case, shape>>, names_end |-> 0,
                        twin |-> <<>>]
  /\ ar_base \in {0, MaxBase, 4352 + MaxBase}
  /\ ar_pc = "start"
  /\ ar_res = NotRun
  /\ ar_read = NotRun
  /\ ar_view = NotRun
  /\ AesIdle /\ CtrIdle /\ HdrIdle /\ IoIdle /\ HashIdle /\ FontIdle /\ KsIdle /\ XtsIdle

\* Xci::parse with the stream at position ar_base.
XciParse ==
  /\ ar_pc = "start" /\ ar_kind = "xci"
  /\ ar_res' = Xci_parse(ar_buf, ar_base)
  /\ ar_pc' = "parsed"
  /\ UNCHANGED <<ar_kind, ar_buf, ar_gen, ar_base, ar_read, ar_view, arOthers>>

XciNext == XciParse

SpecXci == XciInit /\ [][XciNext]_vars

XciParsed == ar_pc = "parsed" /\ ar_kind = "xci"

\* The image holds the four bytes at 0x1100, and they are "HEAD".
XciHasMagic == Len(ar_buf) >= 4356
XciHead == SubSeq(ar_buf, 4353, 4356) = <<72, 69, 65, 68>>

\* The u64 at 0x1130 as a stream position.
XciHfs0At == seek_start(ar_buf, FieldBytes(4400, 8))

\* C18: from whatever stream position it is started, Xci::parse fails with
\* BadMagic unless the four bytes at absolute offset 0x1100 are "HEAD"; when
\* it succeeds hfs0_offset is the little-endian u64 at 0x1130, rom_size the
\* byte at 0x110D and root_partition the result of Hfs0::parse at the
\* absolute position hfs0_offset, with data_offset = hfs0_offset + 0x10 +
\* n * 0x40 + string_table_size; when that Hfs0::parse fails, so does
\* Xci::parse.
C18_XciPointerChain ==
  XciParsed =>
    /\ (XciHasMagic /\ ~XciHead) => ar_res = [tag |-> "err", err |-> "BadMagic"]
    /\ ar_res.tag = "ok" =>
         /\ XciHasMagic /\ XciHead
         /\ ar_res.hfs0_offset = FieldBytes(4400, 8)
         /\ ar_res.rom_size = ar_buf[4366]
         /\ ar_res.root_partition = Hfs0_parse(ar_buf, XciHfs0At)
         /\ ar_res.root_partition.tag = "ok"
         /\ ar_res.root_partition.data_offset =
              NumFromNat(XciHfs0At + 16 + FieldValue(XciHfs0At + 4) * 64
                           + FieldValue(XciHfs0At + 8))
    /\ (Len(ar_buf) >= 4448 /\ XciHead /\ Hfs0_parse(ar_buf, XciHfs0At).tag # "ok") =>
         /\ ar_res.tag # "ok"
         /\ ar_res.err = Hfs0_parse(ar_buf, XciHfs0At).err

\* Started past the card header, on an image whose root HFS0 lies at 0x1200
\* and lists one entry.
C18_Witness ==
  /\ XciParsed /\ ar_res.tag = "ok" /\ ar_base = 4352 + MaxBase
  /\ ar_res.hfs0_offset = NumFromNat(4608) /\ ar_res.rom_size = 246
  /\ Len(ar_res.root_partition.files) = 1
  /\ ar_res.root_partition.files[1].name = <<97>>
  /\ ar_res.root_partition.data_offset = NumFromNat(4608 + 16 + 64 + 4)

-----------------------------------------------------------------------------
(* sarc_hash on names of a few bytes and several multipliers.               *)

MaxNameLen == 3
MaxHashByteId == 4
MaxMultiplierId == 3

HashByte(id) ==
  CASE id = 0 -> 97
    [] id = 1 -> 255
    [] id = 2 -> 128
    [] id = 3 -> 127
    [] id = 4 -> 0
    [] OTHER -> 46 + id

HashMultiplier(id) ==
  CASE id = 0 -> U32(101)
    [] id = 1 -> U32Max
    [] id = 2 -> <<1, 0, 1, 147>>
    [] id = 3 -> U32(0)
    [] OTHER -> <<128, 0, 0, id>>

HashInit ==
  /\ \E n \in 0..MaxNameLen : \E ids \in [1..n -> 0..MaxHashByteId] :
       hash_name = SubSeq([i \in 1..n |-> HashByte(ids[i])], 1, n)
  /\ hash_mul \in {HashMultiplier(id) : id \in 0..MaxMultiplierId}
  /\ hash_res = <<>>
  /\ AesIdle /\ CtrIdle /\ HdrIdle /\ IoIdle /\ ArIdle /\ FontIdle /\ KsIdle /\ XtsIdle

SarcHash ==
  /\ hash_mul # <<>> /\ hash_res = <<>>
  /\ hash_res' = sarc_hash(hash_name, hash_mul)
  /\ UNCHANGED <<hash_name, hash_mul, hashOthers>>

HashNext == SarcHash

SpecHash == HashInit /\ [][HashNext]_vars

\* h * m mod 2^32 by Horner's rule over the four bytes of m from the top:
\* ((h * m1 * 256 + h * m2) * 256 + h * m3) * 256 + h * m4.
Shl8(a) == <<a[2], a[3], a[4], 0>>
TimesByte(h, k) == NumMulLoop(h, k, 4, 0).product
Plus32(a, b) == NumAddLoop(a, b, 4, 0).sum

TimesMod32(h, m) ==
  CHOOSE r \in {Plus32(Shl8(hi), TimesByte(h, m[4])) :
                 hi \in {Plus32(Shl8(top), TimesByte(h, m[3])) :
                          top \in {Plus32(Shl8(TimesByte(h, m[1])), TimesByte(h, m[2]))}}} : TRUE

\* b as a signed byte, mod 2^32: b, or b - 256 + 2^32.
SignedByteMod32(b) ==
  IF b < 128 THEN U32(b) ELSE NumSub(<<255, 255, 255, 255>>, U32(255 - b))

\* The fold h := (h * m + sign_extend_i8(b)) mod 2^32 over a name, from 0.
RECURSIVE HashFold(_, _)
HashFold(name, m) ==
  IF name = <<>> THEN <<0, 0, 0, 0>>
  ELSE CHOOSE r \in {Plus32(TimesMod32(h, m), SignedByteMod32(name[Len(name)])) :
                      h \in {HashFold(SubSeq(name, 1, Len(name) - 1), m)}} : TRUE

\* C19: sarc_hash(name, m) is the fold h := (h * m + sign_extend_i8(b)) mod
\* 2^32 over the bytes of name from h = 0; sarc_hash("", 101) = 0,
\* sarc_hash("a", 101) = 97 and sarc_hash([0xFF], 101) = 0xFFFFFFFF.
C19_SarcHashFold ==
  hash_res # <<>> =>
    /\ hash_res = HashFold(hash_name, hash_mul)
    /\ (hash_mul = U32(101) /\ hash_name = <<>>) => hash_res = U32(0)
    /\ (hash_mul = U32(101) /\ hash_name = <<97>>) => hash_res = U32(97)
    /\ (hash_mul = U32(101) /\ hash_name = <<255>>) => hash_res = U32Max

\* "a", 0xFF with multiplier 101: 97 * 101 - 1 = 9796.
C19_Witness ==
  /\ hash_name = <<97, 255>> /\ hash_mul = U32(101) /\ hash_res = U32(9796)

-----------------------------------------------------------------------------
(* SARC: the two byte orders.                                               *)

\* Sarc::parse on the same content written with the other byte-order mark.
SarcTwin == Sarc_parse(ar_gen.twin, ar_base)

\* Two descriptors that differ in the le flag only.
SarcSameButOrder(a, b) ==
  /\ a.tag = "ok" /\ b.tag = "ok"
  /\ a.files = b.files
  /\ a.hash_multiplier = b.hash_multiplier
  /\ a.data_offset = b.data_offset
  /\ a.version = b.version
  /\ a.le # b.le

C20_BigEndianSizesRefused ==
  (ar_pc = "parsed" /\ ar_kind = "sarc" /\ ar_gen.shape = 0 /\ ar_gen.order = "be")
    => ar_res = [tag |-> "err", err |-> "Parse"]

-----------------------------------------------------------------------------
(* SARC: the checks of the three headers.                                   *)

MaxSarcMagicId == 3
MaxSizeId == 1
MaxBomId == 3
MaxCountId == 4

\* The three magics of a SARC archive, one of them spoilt: 0 none, 1 SARC,
\* 2 SFAT, 3 SFNT.
SarcMagics(id) ==
  [sarc |-> IF id = 1 THEN <<83, 65, 82, 88>> ELSE <<83, 65, 82, 67>>,
   sfat |-> IF id = 2 THEN <<83, 70, 65, 88>> ELSE <<83, 70, 65, 84>>,
   sfnt |-> IF id = 3 THEN <<88, 70, 78, 84>> ELSE <<83, 70, 78, 84>>]

\* A header size field as a u16: the right one, or another.
SarcSize(right, id) == IF id = 0 THEN U16(right) ELSE U16(right + 255 * id)

\* The byte-order mark as the u16 that le_u16 reads.
SarcBom(id) ==
  CASE id = 0 -> <<255, 254>>
    [] id = 1 -> <<254, 255>>
    [] id = 2 -> <<0, 0>>
    [] OTHER -> <<255, 255>>

\* The SFAT file count.
SarcCount(id) ==
  CASE id = 0 -> U16(0)
    [] id = 1 -> U16(1)
    [] id = 2 -> <<63, 255>>
    [] id = 3 -> <<64, 0>>
    [] OTHER -> <<255, 255>>

\* A SARC archive with the given header fields.  With present it holds one
\* SFAT entry when the count is not zero, the SFNT header, the name "a" and
\* one byte of data; without, it ends after the SFAT header.
SarcHeadBytes(g) ==
  LET le == g.bom = <<255, 254>>
      one == g.count # <<0, 0>>
      head == g.magics.sarc \o to_le_bytes(g.header_size) \o to_le_bytes(g.bom)
                \o to_bytes(U32(IF one THEN 65 ELSE 49), le)
                \o to_bytes(U32(IF one THEN 64 ELSE 48), le)
                \o to_le_bytes(U16(256)) \o <<0, 0>>
                \o g.magics.sfat \o to_le_bytes(g.sfat_size)
                \o to_bytes(g.count, le) \o to_bytes(U32(101), le)
      fat == IF one
             THEN to_bytes(U32(97), le) \o to_bytes(<<1, 0, 0, 0>>, le)
                    \o to_bytes(U32(0), le) \o to_bytes(U32(1), le)
             ELSE <<>>
  IN  IF g.present
      THEN head \o fat \o g.magics.sfnt \o to_le_bytes(g.sfnt_size) \o <<0, 0>>
             \o <<97, 0, 0, 0, 0, 0, 0, 0>> \o <<65>>
      ELSE head

SarcHeadInit ==
  /\ ar_kind = "sarc-head"
  /\ ar_base \in {0, MaxBase}
  /\ \E m \in 0..MaxSarcMagicId : \E hs, fs, ns \in 0..MaxSizeId :
       \E b \in 0..MaxBomId : \E c \in 0..MaxCountId : \E present \in BOOLEAN :
         ar_gen = [magics |-> SarcMagics(m), header_size |-> SarcSize(20, hs),
                   bom |-> SarcBom(b), sfat_size |-> SarcSize(12, fs),
                   count |-> SarcCount(c), sfnt_size |-> SarcSize(8, ns),
                   present |-> present]
  /\ ar_buf = ArPadding(ar_base) \o SarcHeadBytes(ar_gen)
  /\ ar_pc = "start"
  /\ ar_res = NotRun
  /\ ar_read = NotRun
  /\ ar_view = NotRun
  /\ AesIdle /\ CtrIdle /\ HdrIdle /\ IoIdle /\ HashIdle /\ FontIdle /\ KsIdle /\ XtsIdle

SarcHeadParse ==
  /\ ar_pc = "start" /\ ar_kind = "sarc-head"
  /\ ar_res' = Sarc_parse(ar_buf, ar_base)
  /\ ar_pc' = "parsed"
  /\ UNCHANGED <<ar_kind, ar_buf, ar_gen, ar_base, ar_read, ar_view, arOthers>>

SarcHeadNext == SarcHeadParse

SpecSarcHead == SarcHeadInit /\ [][SarcHeadNext]_vars

SarcHeadParsed == ar_pc = "parsed" /\ ar_kind = "sarc-head"

SarcFailsWith(err) == ar_res = [tag |-> "err", err |-> err]

\* What is right in the archive up to and including the SFAT header.
SarcHeaderRight ==
  /\ ar_gen.magics.sarc = <<83, 65, 82, 67>> /\ ar_gen.header_size = U16(20)
  /\ ar_gen.bom \in {<<255, 254>>, <<254, 255>>}
  /\ ar_gen.magics.sfat = <<83, 70, 65, 84>> /\ ar_gen.sfat_size = U16(12)

\* The file count written in the SFAT header.
SarcCountNat == ar_gen.count[1] * 256 + ar_gen.count[2]

\* The entries that the count announces are all in the stream.
SarcEntriesThere == ar_gen.present /\ SarcCountNat <= 1

\* C21: a file count above 0x3FFF is refused with Parse whether or not any
\* FAT entry follows, and a count up to 0x3FFF is never the reason of a
\* Parse error; a SARC header size other than 0x14, an SFAT header size other
\* than 0x0C, an SFNT header size other than 8 and a byte-order mark other
\* than 0xFEFF and 0xFFFE give Parse, and a wrong SARC, SFAT or SFNT magic
\* gives BadMagic, each where the parse gets as far as the field.
C21_SarcHeaderChecks ==
  SarcHeadParsed =>
    /\ ar_gen.magics.sarc # <<83, 65, 82, 67>> => SarcFailsWith("BadMagic")
    /\ (ar_gen.magics.sarc = <<83, 65, 82, 67>> /\ ar_gen.header_size # U16(20))
         => SarcFailsWith("Parse")
    /\ (ar_gen.magics.sarc = <<83, 65, 82, 67>> /\ ar_gen.header_size = U16(20)
          /\ ar_gen.bom \notin {<<255, 254>>, <<254, 255>>})
         => SarcFailsWith("Parse")
    /\ (ar_gen.magics.sarc = <<83, 65, 82, 67>> /\ ar_gen.header_size = U16(20)
          /\ ar_gen.bom \in {<<255, 254>>, <<254, 255>>}
          /\ ar_gen.magics.sfat # <<83, 70, 65, 84>>)
         => SarcFailsWith("BadMagic")
    /\ (ar_gen.magics.sarc = <<83, 65, 82, 67>> /\ ar_gen.header_size = U16(20)
          /\ ar_gen.bom \in {<<255, 254>>, <<254, 255>>}
          /\ ar_gen.magics.sfat = <<83, 70, 65, 84>> /\ ar_gen.sfat_size # U16(12))
         => SarcFailsWith("Parse")
    /\ (SarcHeaderRight /\ SarcCountNat > 16383) => SarcFailsWith("Parse")
    /\ (SarcHeaderRight /\ SarcCountNat <= 16383 /\ ~SarcEntriesThere)
         => SarcFailsWith("Io")
    /\ (SarcHeaderRight /\ SarcEntriesThere /\ ar_gen.magics.sfnt # <<83, 70, 78, 84>>)
         => SarcFailsWith("BadMagic")
    /\ (SarcHeaderRight /\ SarcEntriesThere /\ ar_gen.magics.sfnt = <<83, 70, 78, 84>>
          /\ ar_gen.sfnt_size # U16(8))
         => SarcFailsWith("Parse")
    /\ (SarcHeaderRight /\ SarcEntriesThere /\ ar_gen.magics.sfnt = <<83, 70, 78, 84>>
          /\ ar_gen.sfnt_size = U16(8))
         => /\ ar_res.tag = "ok"
            /\ Len(ar_res.files) = SarcCountNat

\* A count of 0x4000 in an archive that ends after the SFAT header is
\* refused with Parse, and a count of 0x3FFF in an archive with one entry is
\* not.
C21_Witness ==
  /\ SarcHeadParsed /\ SarcHeaderRight /\ ~ar_gen.present
  /\ ar_gen.count = <<64, 0>> /\ SarcFailsWith("Parse")
  /\ Len(ar_buf) = ar_base + 32

C21_CountAtLimit ==
  /\ SarcHeadParsed /\ SarcHeaderRight /\ ar_gen.present
  /\ ar_gen.count = <<63, 255>> /\ SarcFailsWith("Io")

-----------------------------------------------------------------------------
(* Fonts: detection of the platform and the XOR transform.                  *)

MaxFontMagicId == 3
MaxFontKeyId == 3
MaxFontLen == 18

FontPlatforms == <<"Switch", "WiiU", "Windows">>

\* The start of a plain font: TrueType, OpenType, a collection, or none.
FontMagic(id) ==
  CASE id = 0 -> <<0, 1, 0, 0, 0>>
    [] id = 1 -> <<79, 84, 84, 79, 0>>
    [] id = 2 -> <<116, 116, 99, 102, 0>>
    [] OTHER -> <<0, 1, 0, 0, id>>

\* A plain font of len bytes, and the stream made from it with the key of
\* platform key (left plain for a key past the three).
FontPlain(magic_id, len) ==
  SubSeq(FontMagic(magic_id) \o Pattern(7, 13, len), 1, len)

FontStream(magic_id, key, len) ==
  IF key \in 1..3
  THEN SubSeq([i \in 1..len |-> xor(FontPlain(magic_id, len)[i],
                                    xor_key(FontPlatforms[key])[((i - 1) % 16) + 1])],
              1, len)
  ELSE FontPlain(magic_id, len)

FontInit ==
  /\ \E magic_id \in 0..MaxFontMagicId : \E key \in 0..MaxFontKeyId :
       \E len \in 0..MaxFontLen : font_data = FontStream(magic_id, key, len)
  /\ font_res = NotRun
  /\ font_out = NotRun
  /\ AesIdle /\ CtrIdle /\ HdrIdle /\ IoIdle /\ ArIdle /\ HashIdle /\ KsIdle /\ XtsIdle

FontParse ==
  /\ font_res = NotRun
  /\ font_res' = Bfttf_parse(font_data)
  /\ UNCHANGED <<font_data, font_out, fontOthers>>

FontDecrypt ==
  /\ font_res # NotRun /\ font_res.tag = "ok"
  /\ font_out' = [tag |-> "decrypt", bytes |-> Bfttf_decrypt(font_res)]
  /\ UNCHANGED <<font_data, font_res, fontOthers>>

\* decrypt and encrypt on the data, and each on the result of the other.
FontRoundTrip ==
  /\ \E k \in 1..3 :
       LET platform == FontPlatforms[k]
       IN  font_out' = [tag |-> "round", platform |-> platform,
                        dec |-> decrypt(font_data, platform),
                        enc |-> encrypt(font_data, platform),
                        enc_dec |-> encrypt(decrypt(font_data, platform), platform),
                        dec_enc |-> decrypt(encrypt(font_data, platform), platform)]
  /\ UNCHANGED <<font_data, font_res, fontOthers>>

FontNext == FontParse \/ FontDecrypt \/ FontRoundTrip

SpecFont == FontInit /\ [][FontNext]_vars

\* The first five bytes of the data (fewer if it is shorter) XORed with the
\* start of the key of a platform.
FontHead(platform) ==
  SubSeq([i \in 1..Len(font_data) |-> xor(font_data[i], xor_key(platform)[((i - 1) % 16) + 1])],
         1, IF Len(font_data) < 5 THEN Len(font_data) ELSE 5)

IsFontMagic(head) ==
  \/ head = <<0, 1, 0, 0, 0>>
  \/ Len(head) >= 4 /\ SubSeq(head, 1, 4) \in {<<79, 84, 84, 79>>, <<116, 116, 99, 102>>}

\* The platforms whose key makes a font magic of the start of the data, by
\* their place in the order Switch, Wii U, Windows.
FontMatches == {k \in 1..3 : Len(font_data) >= 5 /\ IsFontMagic(FontHead(FontPlatforms[k]))}

\* C22: Bfttf::parse succeeds with the first platform of Switch, Wii U,
\* Windows whose key turns the start of the input into 00 01 00 00 00, "OTTO"
\* or "ttcf", and fails with BadMagic when none does or the input has fewer
\* than five bytes; decrypt() then returns the input XORed with the repeating
\* key of that platform, which starts with one of the three magics.
C22_FontDetection ==
  /\ font_res # NotRun =>
       IF FontMatches = {}
       THEN font_res = [tag |-> "err", err |-> "BadMagic"]
       ELSE /\ font_res.tag = "ok" /\ font_res.data = font_data
            /\ \E k \in FontMatches : /\ font_res.platform = FontPlatforms[k]
                                      /\ \A j \in FontMatches : k <= j
  /\ (font_res # NotRun /\ font_out # NotRun /\ font_out.tag = "decrypt") =>
       /\ Len(font_out.bytes) = Len(font_data)
       /\ \A i \in 1..Len(font_data) :
            font_out.bytes[i]
              = xor(font_data[i], xor_key(font_res.platform)[((i - 1) % 16) + 1])
       /\ IsFontMagic(SubSeq(font_out.bytes, 1, 5))

\* A font of 18 bytes made with the Wii U key is decrypted to a TrueType
\* font; an OpenType start of four bytes made with the Switch key is
\* refused.
C22_Witness ==
  /\ font_res # NotRun /\ font_res.tag = "ok" /\ font_res.platform = "WiiU"
  /\ font_out # NotRun /\ font_out.tag = "decrypt"
  /\ Len(font_data) = 18 /\ SubSeq(font_out.bytes, 1, 5) = <<0, 1, 0, 0, 0>>
  /\ font_out.bytes # font_data

C22_FourBytesRefused ==
  /\ font_res = [tag |-> "err", err |-> "BadMagic"]
  /\ Len(font_data) = 4 /\ FontHead("Switch") = <<79, 84, 84, 79>>

\* C23: decrypt and encrypt keep the length and undo each other for every
\* data and platform, byte i (from 0) being XORed with key byte i mod 16.
C23_FontXorInvolution ==
  (font_out # NotRun /\ font_out.tag = "round") =>
    /\ font_out.enc_dec = font_data /\ font_out.dec_enc = font_data
    /\ Len(font_out.dec) = Len(font_data) /\ Len(font_out.enc) = Len(font_data)
    /\ \A i \in 1..Len(font_data) :
         /\ font_out.dec[i] = xor(font_data[i], xor_key(font_out.platform)[((i - 1) % 16) + 1])
         /\ font_out.enc[i] = font_out.dec[i]

\* A round trip on 17 bytes, one more than the key.
C23_Witness ==
  /\ font_out # NotRun /\ font_out.tag = "round" /\ Len(font_data) = 17
  /\ font_out.platform = "Windows"
  /\ font_out.dec # font_data /\ font_out.enc_dec = font_data
  /\ font_out.dec[17] = xor(font_data[17], 151)

-----------------------------------------------------------------------------
(* Key files: loads of a few lines, one after another, into one KeySet.     *)

MaxLineId == 16
MaxLines == 2
MaxLoads == 2

\* The lines of the key files.  With its text each line carries what it
\* stands for in the format: kind "header", "kaek" or "title" with the
\* decoded fields, or "skip" for a line that sets nothing, and whether its
\* bytes are UTF-8.
KeySkip(text, utf8) ==
  [text |-> text, kind |-> "skip", utf8 |-> utf8, index |-> 0, generation |-> 0,
   rights |-> <<>>, key |-> <<>>]

KeyLine(id) ==
  CASE id = 0 ->
         \* blank
         KeySkip(
            <<32, 32>>,
            TRUE)
    [] id = 1 ->
         \* a comment that holds an assignment
         KeySkip(
            <<59, 32, 104, 101, 97, 100, 101, 114, 95, 107, 101, 121, 32, 61,
              32, 50, 48, 50, 49, 50, 50, 50, 51, 50, 52, 50, 53, 50, 54, 50,
              55, 50, 56, 50, 57, 50, 97, 50, 98, 50, 99, 50, 100, 50, 101, 50,
              102, 51, 48, 51, 49, 51, 50, 51, 51, 51, 52, 51, 53, 51, 54, 51,
              55, 51, 56, 51, 57, 51, 97, 51, 98, 51, 99, 51, 100, 51, 101, 51,
              102>>,
            TRUE)
    [] id = 2 ->
         \* the header key
         [text |->
            <<104, 101, 97, 100, 101, 114, 95, 107, 101, 121, 32, 61, 32, 50,
              48, 50, 49, 50, 50, 50, 51, 50, 52, 50, 53, 50, 54, 50, 55, 50,
              56, 50, 57, 50, 97, 50, 98, 50, 99, 50, 100, 50, 101, 50, 102,
              51, 48, 51, 49, 51, 50, 51, 51, 51, 52, 51, 53, 51, 54, 51, 55,
              51, 56, 51, 57, 51, 97, 51, 98, 51, 99, 51, 100, 51, 101, 51, 102>>,
          kind |-> "header", utf8 |-> TRUE, index |-> 0, generation |-> 0,
          rights |->
            <<>>,
          key |->
            <<32, 33, 34, 35, 36, 37, 38, 39, 40, 41, 42, 43, 44, 45, 46, 47,
              48, 49, 50, 51, 52, 53, 54, 55, 56, 57, 58, 59, 60, 61, 62, 63>>]
    [] id = 3 ->
         \* application, generation 0, the all-zero key
         [text |->
            <<107, 101, 121, 95, 97, 114, 101, 97, 95, 107, 101, 121, 95, 97,
              112, 112, 108, 105, 99, 97, 116, 105, 111, 110, 95, 48, 48, 32,
              61, 32, 48, 48, 48, 48, 48, 48, 48, 48, 48, 48, 48, 48, 48, 48,
              48, 48, 48, 48, 48, 48, 48, 48, 48, 48, 48, 48, 48, 48, 48, 48,
              48, 48>>,
          kind |-> "kaek", utf8 |-> TRUE, index |-> 0, generation |-> 0,
          rights |->
            <<>>,
          key |->
            <<0, 0, 0, 0, 0, 0, 0, 0, 0, 0, 0, 0, 0, 0, 0, 0>>]
    [] id = 4 ->
         \* application, generation 0, another key
         [text |->
            <<107, 101, 121, 95, 97, 114, 101, 97, 95, 107, 101, 121, 95, 97,
              112, 112, 108, 105, 99, 97, 116, 105, 111, 110, 95, 48, 48, 32,
              61, 32, 48, 48, 48, 49, 48, 50, 48, 51, 48, 52, 48, 53, 48, 54,
              48, 55, 48, 56, 48, 57, 48, 97, 48, 98, 48, 99, 48, 100, 48, 101,
              48, 102>>,
          kind |-> "kaek", utf8 |-> TRUE, index |-> 0, generation |-> 0,
          rights |->
            <<>>,
          key |->
            <<0, 1, 2, 3, 4, 5, 6, 7, 8, 9, 10, 11, 12, 13, 14, 15>>]
    [] id = 5 ->
         \* ocean, generation 0x1F, digits in both cases, white space around
         [text |->
            <<32, 107, 101, 121, 95, 97, 114, 101, 97, 95, 107, 101, 121, 95,
              111, 99, 101, 97, 110, 95, 49, 70, 9, 61, 9, 65, 98, 99, 68, 101,
              102, 48, 49, 50, 51, 52, 53, 54, 55, 56, 57, 102, 102, 56, 48,
              55, 70, 49, 48, 48, 97, 97, 48, 53, 99, 67, 53, 32, 32>>,
          kind |-> "kaek", utf8 |-> TRUE, index |-> 1, generation |-> 31,
          rights |->
            <<>>,
          key |->
            <<171, 205, 239, 1, 35, 69, 103, 137, 255, 128, 127, 16, 10, 160,
              92, 197>>]
    [] id = 6 ->
         \* generation 0x20 = 32
         KeySkip(
            <<107, 101, 121, 95, 97, 114, 101, 97, 95, 107, 101, 121, 95, 115,
              121, 115, 116, 101, 109, 95, 50, 48, 32, 61, 32, 48, 48, 48, 49,
              48, 50, 48, 51, 48, 52, 48, 53, 48, 54, 48, 55, 48, 56, 48, 57,
              48, 97, 48, 98, 48, 99, 48, 100, 48, 101, 48, 102>>,
            TRUE)
    [] id = 7 ->
         \* a generation that is not hex
         KeySkip(
            <<107, 101, 121, 95, 97, 114, 101, 97, 95, 107, 101, 121, 95, 115,
              121, 115, 116, 101, 109, 95, 122, 122, 32, 61, 32, 48, 48, 48,
              49, 48, 50, 48, 51, 48, 52, 48, 53, 48, 54, 48, 55, 48, 56, 48,
              57, 48, 97, 48, 98, 48, 99, 48, 100, 48, 101, 48, 102>>,
            TRUE)
    [] id = 8 ->
         \* a key of 31 digits
         KeySkip(
            <<107, 101, 121, 95, 97, 114, 101, 97, 95, 107, 101, 121, 95, 97,
              112, 112, 108, 105, 99, 97, 116, 105, 111, 110, 95, 48, 49, 32,
              61, 32, 48, 48, 48, 49, 48, 50, 48, 51, 48, 52, 48, 53, 48, 54,
              48, 55, 48, 56, 48, 57, 48, 97, 48, 98, 48, 99, 48, 100, 48, 101,
              48>>,
            TRUE)
    [] id = 9 ->
         \* a header key with a digit that is not hex
         KeySkip(
            <<104, 101, 97, 100, 101, 114, 95, 107, 101, 121, 32, 61, 32, 50,
              48, 50, 49, 50, 50, 50, 51, 50, 52, 50, 53, 50, 54, 50, 55, 50,
              56, 50, 57, 50, 97, 50, 98, 50, 99, 50, 100, 50, 101, 50, 102,
              51, 48, 51, 49, 51, 50, 51, 51, 51, 52, 51, 53, 51, 54, 51, 55,
              51, 56, 51, 57, 51, 97, 51, 98, 51, 99, 51, 100, 51, 101, 51, 103>>,
            TRUE)
    [] id = 10 ->
         \* no '='
         KeySkip(
            <<107, 101, 121, 95, 97, 114, 101, 97, 95, 107, 101, 121, 95, 111,
              99, 101, 97, 110, 95, 48, 50>>,
            TRUE)
    [] id = 11 ->
         \* a name that is not recognised
         KeySkip(
            <<109, 97, 115, 116, 101, 114, 95, 107, 101, 121, 95, 48, 48, 32,
              61, 32, 48, 48, 48, 49, 48, 50, 48, 51, 48, 52, 48, 53, 48, 54,
              48, 55, 48, 56, 48, 57, 48, 97, 48, 98, 48, 99, 48, 100, 48, 101,
              48, 102>>,
            TRUE)
    [] id = 12 ->
         \* a title key
         [text |->
            <<102, 48, 102, 49, 102, 50, 102, 51, 102, 52, 102, 53, 102, 54,
              102, 55, 102, 56, 102, 57, 102, 97, 102, 98, 102, 99, 102, 100,
              102, 101, 102, 102, 32, 61, 32, 48, 48, 48, 49, 48, 50, 48, 51,
              48, 52, 48, 53, 48, 54, 48, 55, 48, 56, 48, 57, 48, 97, 48, 98,
              48, 99, 48, 100, 48, 101, 48, 102>>,
          kind |-> "title", utf8 |-> TRUE, index |-> 0, generation |-> 0,
          rights |->
            <<240, 241, 242, 243, 244, 245, 246, 247, 248, 249, 250, 251, 252,
              253, 254, 255>>,
          key |->
            <<0, 1, 2, 3, 4, 5, 6, 7, 8, 9, 10, 11, 12, 13, 14, 15>>]
    [] id = 13 ->
         \* the same rights id with the all-zero key
         [text |->
            <<102, 48, 102, 49, 102, 50, 102, 51, 102, 52, 102, 53, 102, 54,
              102, 55, 102, 56, 102, 57, 102, 97, 102, 98, 102, 99, 102, 100,
              102, 101, 102, 102, 32, 61, 32, 48, 48, 48, 48, 48, 48, 48, 48,
              48, 48, 48, 48, 48, 48, 48, 48, 48, 48, 48, 48, 48, 48, 48, 48,
              48, 48, 48, 48, 48, 48, 48, 48>>,
          kind |-> "title", utf8 |-> TRUE, index |-> 0, generation |-> 0,
          rights |->
            <<240, 241, 242, 243, 244, 245, 246, 247, 248, 249, 250, 251, 252,
              253, 254, 255>>,
          key |->
            <<0, 0, 0, 0, 0, 0, 0, 0, 0, 0, 0, 0, 0, 0, 0, 0>>]
    [] id = 14 ->
         \* a title key of 33 digits
         KeySkip(
            <<102, 48, 102, 49, 102, 50, 102, 51, 102, 52, 102, 53, 102, 54,
              102, 55, 102, 56, 102, 57, 102, 97, 102, 98, 102, 99, 102, 100,
              102, 101, 102, 102, 32, 61, 32, 48, 48, 48, 49, 48, 50, 48, 51,
              48, 52, 48, 53, 48, 54, 48, 55, 48, 56, 48, 57, 48, 97, 48, 98,
              48, 99, 48, 100, 48, 101, 48, 102, 48>>,
            TRUE)
    [] id = 15 ->
         \* system, generation 5 in one digit
         [text |->
            <<107, 101, 121, 95, 97, 114, 101, 97, 95, 107, 101, 121, 95, 115,
              121, 115, 116, 101, 109, 95, 53, 32, 61, 32, 65, 98, 99, 68, 101,
              102, 48, 49, 50, 51, 52, 53, 54, 55, 56, 57, 102, 102, 56, 48,
              55, 70, 49, 48, 48, 97, 97, 48, 53, 99, 67, 53>>,
          kind |-> "kaek", utf8 |-> TRUE, index |-> 2, generation |-> 5,
          rights |->
            <<>>,
          key |->
            <<171, 205, 239, 1, 35, 69, 103, 137, 255, 128, 127, 16, 10, 160,
              92, 197>>]
    [] id = 16 ->
         \* a comment in Latin-1, which is not UTF-8
         KeySkip(
            <<59, 32, 99, 97, 102, 233>>,
            FALSE)
    [] OTHER -> KeySkip(<<59, 32, 48 + (id % 10)>>, TRUE)

\* The files: up to MaxLines lines of the pool.
KeyFiles == UNION {[1..n -> 0..MaxLineId] : n \in 0..MaxLines}

KeyTexts(file) == SubSeq([i \in 1..Len(file) |-> KeyLine(file[i]).text], 1, Len(file))

KsInit ==
  /\ ks_set = KeySet_new
  /\ ks_prev = KeySet_new
  /\ ks_call = NotRun
  /\ ks_res = "none"
  /\ ks_runs = 0
  /\ AesIdle /\ CtrIdle /\ HdrIdle /\ IoIdle /\ ArIdle /\ HashIdle /\ FontIdle /\ XtsIdle

LoadProdKeys ==
  /\ ks_runs < MaxLoads
  /\ \E file \in KeyFiles :
       /\ ks_call' = [loader |-> "prod", file |-> file]
       /\ \E r \in {load_prod_keys(ks_set, KeyTexts(file))} :
            ks_set' = r.set /\ ks_res' = r.res
  /\ ks_prev' = ks_set
  /\ ks_runs' = ks_runs + 1
  /\ UNCHANGED ksOthers

LoadTitleKeys ==
  /\ ks_runs < MaxLoads
  /\ \E file \in KeyFiles :
       /\ ks_call' = [loader |-> "title", file |-> file]
       /\ \E r \in {load_title_keys(ks_set, KeyTexts(file))} :
            ks_set' = r.set /\ ks_res' = r.res
  /\ ks_prev' = ks_set
  /\ ks_runs' = ks_runs + 1
  /\ UNCHANGED ksOthers

KsNext == LoadProdKeys \/ LoadTitleKeys

SpecKeys == KsInit /\ [][KsNext]_vars

KsLoaded == ks_call # NotRun

\* The lines of the last load that the loader got to: those before the
\* first line that is not UTF-8.
KsProcessed ==
  {i \in 1..Len(ks_call.file) : \A j \in 1..i : KeyLine(ks_call.file[j]).utf8}

\* The processed lines of a load of prod.keys that name the key area key of
\* an index and a generation under 32 with a key of 32 hex digits.
KsKaekLines(index, generation) ==
  {i \in KsProcessed :
     /\ ks_call.loader = "prod" /\ KeyLine(ks_call.file[i]).kind = "kaek"
     /\ KeyLine(ks_call.file[i]).index = index
     /\ KeyLine(ks_call.file[i]).generation = generation /\ generation < 32}

KsLast(lines) == CHOOSE i \in lines : \A j \in lines : j <= i

\* C24: get_kaek is absent in a new KeySet and for every generation from 32
\* up; after a load it is the key of the last processed line of that load
\* that names the index and the generation, and what it was before the load
\* when there is no such line, so a key once loaded stays until a later
\* line replaces it; an all-zero key is present.
C24_KaekLookup ==
  \A index \in 0..2 : \A generation \in 0..255 :
    /\ generation >= 32 => get_kaek(ks_set, index, generation) = None
    /\ ~KsLoaded => get_kaek(ks_set, index, generation) = None
    /\ (KsLoaded /\ generation < 32) =>
         get_kaek(ks_set, index, generation)
           = IF KsKaekLines(index, generation) # {}
             THEN Some(KeyLine(ks_call.file[KsLast(KsKaekLines(index, generation))]).key)
             ELSE get_kaek(ks_prev, index, generation)
    /\ get_kaek(ks_prev, index, generation).some => get_kaek(ks_set, index, generation).some

\* The all-zero application key of generation 0 is loaded and then kept by
\* a load of title keys; ocean generation 0x1F is loaded next to it.
C24_Witness ==
  /\ KsLoaded /\ ks_runs = 2 /\ ks_call.loader = "title" /\ Len(ks_call.file) = 2
  /\ get_kaek(ks_set, 0, 0) = Some(Zeros16) /\ get_kaek(ks_set, 0, 0) # None
  /\ get_kaek(ks_set, 1, 31).some /\ get_kaek(ks_set, 1, 31).val[1] = 171
  /\ ~get_kaek(ks_set, 0, 1).some /\ ~get_kaek(ks_set, 2, 32).some

\* The later of two lines for one entry wins.
C24_LastLineWins ==
  /\ KsLoaded /\ ks_call = [loader |-> "prod", file |-> <<4, 3>>]
  /\ get_kaek(ks_set, 0, 0) = Some(Zeros16)

\* What a line stands for, applied to a KeySet: a header key or a key area
\* key in prod.keys, a title key in title.keys, nothing otherwise.
KsApply(set, loader, line) ==
  IF loader = "prod" /\ line.kind = "header"
  THEN [set EXCEPT !.header_key = Some(line.key)]
  ELSE IF loader = "prod" /\ line.kind = "kaek"
  THEN [set EXCEPT !.kaek[line.index][line.generation] = Some(line.key)]
  ELSE IF loader = "title" /\ line.kind = "title"
  THEN [set EXCEPT !.title_keys =
          {e \in set.title_keys : e[1] # line.rights} \cup {<<line.rights, line.key>>}]
  ELSE set

\* The lines 1..n of a file applied one after another.
RECURSIVE KsApplyLines(_, _, _, _)
KsApplyLines(set, loader, file, n) ==
  IF n = 0 THEN set
  ELSE KsApply(KsApplyLines(set, loader, file, n - 1), loader, KeyLine(file[n]))

\* C25: a line that is blank, a comment, without '=', of an unknown name, of
\* a generation that is not hex or is 32 or more, or of a value of the wrong
\* number of hex digits changes nothing and is no error, and the lines after
\* it are processed: every load returns Ok and leaves the KeySet that the
\* lines which do set a key give, one after another.
C25_BadLinesSkipped ==
  KsLoaded =>
    /\ ks_res = "ok"
    /\ ks_set = KsApplyLines(ks_prev, ks_call.loader, ks_call.file, Len(ks_call.file))

\* The same for the files whose lines are all UTF-8.
C25_DecodableLinesSkipped ==
  (KsLoaded /\ \A i \in 1..Len(ks_call.file) : KeyLine(ks_call.file[i]).utf8) =>
    /\ ks_res = "ok"
    /\ ks_set = KsApplyLines(ks_prev, ks_call.loader, ks_call.file, Len(ks_call.file))

\* A line that is not UTF-8, a comment included, ends the load with an
\* error, and the lines after it are not processed.
C25_UndecodableLineFails ==
  (KsLoaded /\ \E i \in 1..Len(ks_call.file) : ~KeyLine(ks_call.file[i]).utf8) =>
    /\ ks_res = "Io"
    /\ ks_set = KsApplyLines(ks_prev, ks_call.loader, ks_call.file, Cardinality(KsProcessed))

\* A Latin-1 comment before the header key: the load fails and the header
\* key is not set.
C25_CommentStopsLoad ==
  /\ KsLoaded /\ ks_call = [loader |-> "prod", file |-> <<16, 2>>]
  /\ ks_res = "Io" /\ ks_set = KeySet_new

\* A line of each skipped kind before a line that sets a key.
C25_SkippedThenLoaded ==
  /\ KsLoaded /\ ks_call.loader = "prod" /\ Len(ks_call.file) = 2
  /\ ks_call.file[1] \in {0, 1, 6, 7, 8, 9, 10, 11, 12, 14} /\ ks_call.file[2] = 2
  /\ ks_res = "ok" /\ ks_set.header_key.some /\ ks_set.header_key.val[32] = 63

-----------------------------------------------------------------------------
(* null_string on small buffers, alone and as Pfs0::parse and Hfs0::parse   *)
(* call it on the string table of an archive of one entry.                  *)

MaxTableLen == 3
MaxNameOffset == 5

\* The buffers: up to MaxTableLen bytes, each 0, 'a' or 0xFF.
NameTables == UNION {[1..n -> {0, 97, 255}] : n \in 0..MaxTableLen}

\* An archive of one entry with the given name offset (a u32) and string
\* table.
NameArchive(kind, name_offset, table) ==
  (IF kind = "pfs0" THEN <<80, 70, 83, 48>> ELSE <<72, 70, 83, 48>>)
    \o to_le_bytes(U32(1)) \o to_le_bytes(U32(Len(table))) \o <<0, 0, 0, 0>>
    \o to_le_bytes(NumFromNat(0)) \o to_le_bytes(NumFromNat(4)) \o to_le_bytes(name_offset)
    \o (IF kind = "pfs0" THEN <<0, 0, 0, 0>>
        ELSE to_le_bytes(U32(4)) \o <<0, 0, 0, 0, 0, 0, 0, 0>> \o ArSha(0))
    \o table \o ArData

NamesInit ==
  /\ io_buf \in NameTables
  /\ io_pos = 0
  /\ io_op = NoOp
  /\ io_res = NoResult
  /\ io_val = <<>>
  /\ AesIdle /\ CtrIdle /\ HdrIdle /\ ArIdle /\ HashIdle /\ FontIdle /\ KsIdle /\ XtsIdle

\* null_string(&io_buf, offset) for a usize offset.
NullString ==
  /\ io_op = NoOp
  /\ \E offset \in {NumFromNat(k) : k \in 0..MaxNameOffset} \cup {U64Max} :
       \E r \in {null_string(io_buf, offset)} :
         /\ io_op' = [kind |-> "null_string", n |-> offset, from |-> 0]
         /\ io_res' = [tag |-> r.tag, err |-> r.err]
         /\ io_val' = r.val
  /\ UNCHANGED <<io_buf, io_pos, ioOthers>>

\* Pfs0::parse or Hfs0::parse on the archive of one entry whose string
\* table is io_buf.
ParseName(kind) ==
  /\ io_op = NoOp
  /\ \E name_offset \in {U32(k) : k \in 0..MaxNameOffset} \cup {U32Max} :
       \E r \in {IF kind = "pfs0" THEN Pfs0_parse(NameArchive(kind, name_offset, io_buf), 0)
                 ELSE Hfs0_parse(NameArchive(kind, name_offset, io_buf), 0)} :
         /\ io_op' = [kind |-> kind, n |-> <<0, 0, 0, 0>> \o name_offset, from |-> 0]
         /\ io_res' = [tag |-> r.tag, err |-> r.err]
         /\ io_val' = IF r.tag = "ok" THEN r.files[1].name ELSE <<>>
  /\ UNCHANGED <<io_buf, io_pos, ioOthers>>

Pfs0Name == ParseName("pfs0")
Hfs0Name == ParseName("hfs0")

NamesNext == NullString \/ Pfs0Name \/ Hfs0Name

SpecNames == NamesInit /\ [][NamesNext]_vars

NameAsked == io_op.kind \in {"null_string", "pfs0", "hfs0"}

\* The offset of the last call when it is at most the length of the buffer,
\* and the length plus one otherwise.
NameOffset ==
  IF NumIsSmall(io_op.n) /\ NumToNat(io_op.n) <= Len(io_buf) THEN NumToNat(io_op.n)
  ELSE Len(io_buf) + 1

\* The bytes from the offset up to the first zero byte, when there is one.
NameTerminated == \E i \in (NameOffset + 1)..Len(io_buf) : io_buf[i] = 0

NameBytes ==
  LET zero == CHOOSE i \in (NameOffset + 1)..Len(io_buf) :
                /\ io_buf[i] = 0
                /\ \A j \in (NameOffset + 1)..(i - 1) : io_buf[j] # 0
  IN  SubSeq(io_buf, NameOffset + 1, zero - 1)

\* The string of some bytes: each byte under 0x80 itself, 0xFF as U+FFFD.
NameString(bytes) ==
  SubSeq([i \in 1..Len(bytes) |-> IF bytes[i] = 255 THEN 65533 ELSE bytes[i]], 1, Len(bytes))

\* C26 as stated: InvalidRange exactly when the offset is not the index of
\* a byte of the buffer (offset >= len), UnterminatedName exactly when it is
\* and no zero byte follows, the bytes up to the first zero byte otherwise;
\* so a name offset equal to the size of the string table gives
\* InvalidRange.
C26_NullStringIndexInBounds ==
  NameAsked =>
    /\ (io_res = [tag |-> "err", err |-> "InvalidRange"]) <=> NameOffset >= Len(io_buf)
    /\ (io_res = [tag |-> "err", err |-> "UnterminatedName"])
         <=> (NameOffset < Len(io_buf) /\ ~NameTerminated)
    /\ (NameOffset < Len(io_buf) /\ NameTerminated)
         => (io_res.tag = "ok" /\ io_val = NameString(NameBytes))

\* C26, amended: InvalidRange exactly when the offset is greater than the
\* length of the buffer, UnterminatedName exactly when it is at most the
\* length and no zero byte occurs at or after it (always so at the length
\* itself), and otherwise the string of the bytes up to the first zero byte;
\* Pfs0::parse and Hfs0::parse give the same on the string table and the
\* name offset of an entry.
C26_NullStringRangeInBounds ==
  NameAsked =>
    /\ (io_res = [tag |-> "err", err |-> "InvalidRange"]) <=> NameOffset > Len(io_buf)
    /\ (io_res = [tag |-> "err", err |-> "UnterminatedName"])
         <=> (NameOffset <= Len(io_buf) /\ ~NameTerminated)
    /\ (NameOffset <= Len(io_buf) /\ NameTerminated)
         => (io_res.tag = "ok" /\ io_val = NameString(NameBytes))
    /\ NameOffset = Len(io_buf) => io_res = [tag |-> "err", err |-> "UnterminatedName"]

\* A PFS0 entry whose name offset is the size of the string table, "a\0".
C26_Witness ==
  /\ io_op.kind = "pfs0" /\ io_buf = <<97, 0>> /\ io_op.n = NumFromNat(2)
  /\ io_res = [tag |-> "err", err |-> "UnterminatedName"]

\* The three outcomes of null_string itself.
C26_Outcomes ==
  /\ io_op.kind = "null_string" /\ io_buf = <<97, 255, 0>>
  /\ \/ io_op.n = NumFromNat(1) /\ io_res.tag = "ok" /\ io_val = <<65533>>
     \/ io_op.n = NumFromNat(3) /\ io_res.err = "UnterminatedName"
     \/ io_op.n = NumFromNat(4) /\ io_res.err = "InvalidRange"

-----------------------------------------------------------------------------
(* xts_decrypt_sector on single sectors, for several sector indices.        *)

MaxXtsKeyId == 1
MaxXtsSectorId == 4
MaxXtsDataId == 5

\* The sector indices, as the eight bytes of the big-endian u64.
XtsSectorBe(id) ==
  CASE id = 0 -> <<0, 0, 0, 0, 0, 0, 0, 0>>
    [] id = 1 -> <<0, 0, 0, 0, 0, 0, 0, 1>>
    [] id = 2 -> <<0, 0, 0, 0, 0, 0, 1, 2>>
    [] id = 3 -> <<0, 0, 0, 0, 1, 2, 3, 4>>
    [] id = 4 -> <<0, 0, 0, 0, 127, 255, 255, 255>>
    [] OTHER -> <<0, 0, 0, 0, 0, id, 0, 128>>

XtsSectorNumber(id) ==
  XtsSectorBe(id)[5] * 16777216 + XtsSectorBe(id)[6] * 65536
    + XtsSectorBe(id)[7] * 256 + XtsSectorBe(id)[8]

\* The sectors: arithmetic progressions, and all zero.
XtsSectorData(id) == IF id = 0 THEN Pattern(0, 0, SectorSize) ELSE Pattern(41 * id, 10 + id, SectorSize)

XtsInit ==
  /\ \E k \in 0..MaxXtsKeyId :
       /\ xts_key1 = SubSeq(HdrKey(k), 1, 16)
       /\ xts_key2 = SubSeq(HdrKey(k), 17, 32)
  /\ \E s \in 0..MaxXtsSectorId : xts_sector = XtsSectorNumber(s)
  /\ \E d \in 0..MaxXtsDataId : xts_data = XtsSectorData(d)
  /\ xts_out = <<>>
  /\ AesIdle /\ CtrIdle /\ HdrIdle /\ IoIdle /\ ArIdle /\ HashIdle /\ FontIdle /\ KsIdle

XtsDecryptSector ==
  /\ xts_out = <<>>
  /\ xts_out' = xts_decrypt_sector(xts_data, xts_key1, xts_key2, xts_sector)
  /\ UNCHANGED <<xts_key1, xts_key2, xts_sector, xts_data, xtsOthers>>

XtsNext == XtsDecryptSector

SpecXts == XtsInit /\ [][XtsNext]_vars

\* The sector index in eight bytes, most significant first.
XtsSectorBytes ==
  CHOOSE b \in {XtsSectorBe(id) : id \in 0..MaxXtsSectorId} :
    b[5] * 16777216 + b[6] * 65536 + b[7] * 256 + b[8] = xts_sector

\* T_0 .. T_31: T_0 = E_K2(eight zero bytes, then the sector index), and
\* each next one the one before times x.
XtsTweaks ==
  TweakChain(<<aes128_encrypt_block(Zeros8 \o XtsSectorBytes, key_expand(xts_key2))>>, 32)

XtsBlock(bytes, j) == SubSeq(bytes, 16 * j + 1, 16 * j + 16)

\* C27: in xts_decrypt_sector for sector index s the tweaks are
\* T_0 = E_K2(8 zero bytes | big-endian s) and T_(j+1) = T_j * x, the shift
\* of the 128-bit number with byte 0 least significant and 0x87 XORed into
\* byte 0 when bit 7 of byte 15 was set; sub-block j of the output is
\* D_K1(C_j xor T_j) xor T_j, for exactly the 32 sub-blocks of the sector.
C27_XtsTweakChain ==
  xts_out # <<>> =>
    /\ Len(xts_out) = 32 * 16
    /\ \E ts \in {XtsTweaks} : \E rk1 \in {key_expand(xts_key1)} :
         \A j \in 0..31 :
           XtsBlock(xts_out, j)
             = xor_block(aes128_decrypt_block(xor_block(XtsBlock(xts_data, j), ts[j + 1]), rk1),
                         ts[j + 1])

\* Sector 0x01020304, and a tweak chain in which the reduction by 0x87
\* happens and one in which it does not.
C27_Witness ==
  /\ xts_out # <<>> /\ xts_sector = 16909060 /\ xts_data # xts_out
  /\ \E ts \in {XtsTweaks} :
       /\ \E j \in 1..31 : ts[j][16] >= 128 /\ ts[j + 1] # Double128(ts[j], 1, 0)
       /\ \E j \in 1..31 : ts[j][16] < 128 /\ ts[j + 1] = Double128(ts[j], 1, 0)

-----------------------------------------------------------------------------
(* AES-128-CTR from the middle: decrypt_section_ctr on what follows block j *)
(* of a buffer, with the counter the caller builds for that block.          *)

MaxSeekLen == 33
MaxSeekCounterId == 4
MaxSeekKeyId == 1

\* The counter of a caller that starts at block j of a section whose counter
\* at block 0 is counter: the 128-bit big-endian number plus j.  For
\* [bige64(SecureValue) | bige64(byte_offset / 16)] this is the same
\* SecureValue with byte_offset / 16 + j, as long as the lower half does not
\* overflow.
CounterAtBlock(counter, j) == AddBE(counter, 16, j)

SeekInit ==
  /\ ctr_key \in {AesKey(i) : i \in 0..MaxSeekKeyId}
  /\ ctr_counter \in {CtrCounter(i) : i \in 0..MaxSeekCounterId}
  /\ ctr_data \in {CtrData(1, len) : len \in 0..MaxSeekLen}
  /\ ctr_orig = ctr_data
  /\ ctr_runs = 0
  /\ AesIdle /\ HdrIdle /\ IoIdle /\ ArIdle /\ HashIdle /\ FontIdle /\ KsIdle /\ XtsIdle

\* decrypt_section_ctr on the bytes from 16 * j on, which then are the
\* buffer.
DecryptFromBlock ==
  /\ ctr_runs = 0
  /\ \E j \in 0..(Len(ctr_orig) \div 16) :
       ctr_data' = decrypt_section_ctr(SubSeq(ctr_orig, 16 * j + 1, Len(ctr_orig)),
                                       ctr_key, CounterAtBlock(ctr_counter, j))
  /\ ctr_runs' = 1
  /\ UNCHANGED <<ctr_key, ctr_counter, ctr_orig, ctrOthers>>

SeekNext == DecryptFromBlock

SpecCtrSeek == SeekInit /\ [][SeekNext]_vars

\* The block the last call started at.
SeekBlock == (Len(ctr_orig) - Len(ctr_data)) \div 16

\* C28: decrypt_section_ctr on the suffix of d from byte 16 * j, with the
\* counter (c + j) mod 2^128, gives the bytes that decrypt_section_ctr on
\* all of d with the counter c gives from byte 16 * j on.
C28_CtrRandomAccess ==
  ctr_runs = 1 =>
    ctr_data = SubSeq(decrypt_section_ctr(ctr_orig, ctr_key, ctr_counter),
                      16 * SeekBlock + 1, Len(ctr_orig))

\* From block 1 of 33 bytes under the caller-built counter
\* [0102030405060708 | 00000000000000FF], whose lower half carries into its
\* second byte, and from block 2 when the counter wraps all 128 bits.
C28_Witness ==
  /\ ctr_runs = 1 /\ Len(ctr_orig) = 33 /\ SeekBlock = 1 /\ ctr_counter = CtrCounter(3)
  /\ CounterAtBlock(ctr_counter, 1) = <<1, 2, 3, 4, 5, 6, 7, 8, 0, 0, 0, 0, 0, 0, 1, 0>>
  /\ ctr_data # SubSeq(ctr_orig, 17, 33)

C28_WitnessWrap ==
  /\ ctr_runs = 1 /\ Len(ctr_orig) = 33 /\ SeekBlock = 2 /\ ctr_counter = CounterFE
  /\ CounterAtBlock(ctr_counter, 2) = Zeros16
  /\ ctr_data = <<xor(ctr_orig[33], aes128_encrypt_block(Zeros16, key_expand(ctr_key))[1])>>

-----------------------------------------------------------------------------
(* Sequences of read_file calls on one reader wrapper.  ar_view holds the   *)
(* wrapper's stream: inner is the position of the source while no view      *)
(* borrows it, live the views that exist (each a Take with the position it  *)
(* has moved the source to).  ar_read describes the last read_file call:    *)
(* its entry, its result, how many calls there were and where the source    *)
(* stood when it was made.                                                   *)

MaxReadCalls == 3

\* A faulty seek: relative to the current position.
seek_from_current(position, target) == NumAdd(position, target).sum

\* Seek::seek(SeekFrom::Start(target)): the new position is the target,
\* wherever the stream stood.
seek(position, target) == target

ReaderInit ==
  /\ ar_kind \in {"pfs0", "hfs0", "sarc"}
  /\ ar_base \in {0, MaxBase}
  /\ \E n \in 1..MaxFiles : \E ids \in [1..n -> 0..MaxEntryId] : \E t \in {0, 2} :
       IF ar_kind = "sarc"
       THEN \E le \in BOOLEAN :
              /\ ar_buf = ArPadding(ar_base) \o SarcBytes(ids, SarcTable(t), 0, le, TRUE)
              /\ ar_gen = SarcGen(ar_base, ids, SarcTable(t), 0, le, TRUE)
       ELSE /\ ar_buf = ArPadding(ar_base) \o ArBytes(ar_kind, ids, ArTable(t), 0)
            /\ ar_gen = [order |-> "le", shape |-> 0, serial |-> FALSE,
                        names_end |-> 0, twin |-> <<>>]
  /\ ar_pc = "start"
  /\ ar_res = NotRun
  /\ ar_read = NotRun
  /\ ar_view = NotRun
  /\ AesIdle /\ CtrIdle /\ HdrIdle /\ IoIdle /\ HashIdle /\ FontIdle /\ KsIdle /\ XtsIdle

\* Pfs0Reader::new, Hfs0Reader::new, SarcReader::new: parse, then keep the
\* source where the parser left it.
ReaderNew ==
  /\ ar_pc = "start"
  /\ \E r \in {CASE ar_kind = "pfs0" -> Pfs0_parse(ar_buf, ar_base)
                 [] ar_kind = "hfs0" -> Hfs0_parse(ar_buf, ar_base)
                 [] OTHER -> Sarc_parse(ar_buf, ar_base)} :
       /\ ar_res' = r
       /\ ar_view' = IF r.tag = "ok"
                     THEN [inner |-> NumFromNat(r.pos), live |-> <<>>]
                     ELSE NotRun
  /\ ar_pc' = "parsed"
  /\ UNCHANGED <<ar_kind, ar_buf, ar_gen, ar_base, ar_read, arOthers>>

\* read_file(&mut self, file) on an entry of the descriptor, in either build,
\* while no view borrows the wrapper: the addition, the seek, then the Take.
ReaderReadFile ==
  /\ ar_pc = "parsed" /\ ar_res.tag = "ok"
  /\ ar_read.tag # "panic"
  /\ ar_view.live = <<>>
  /\ ar_read.tag = "ok" => ar_read.calls < MaxReadCalls
  /\ \E i \in 1..Len(ar_res.files) : \E overflow_checks \in BOOLEAN :
       \E read \in {IF ar_kind = "sarc"
                    THEN sarc_read_file(ar_buf, ar_res.data_offset, ar_res.files[i],
                                        overflow_checks)
                    ELSE read_file(ar_buf, ar_res.data_offset, ar_res.files[i],
                                   overflow_checks)} :
         /\ ar_read' = [file |-> i, left |-> ar_view.inner,
                        calls |-> IF ar_read.tag = "none" THEN 1 ELSE ar_read.calls + 1]
                         @@ read
         /\ ar_view' =
              IF read.tag # "ok" THEN ar_view
              ELSE [inner |-> seek(ar_view.inner, read.start),
                    live |-> <<[take(read) EXCEPT !.pos = seek(ar_view.inner, read.start)]>>]
  /\ UNCHANGED <<ar_kind, ar_buf, ar_gen, ar_base, ar_pc, ar_res, arOthers>>

\* Read::read on the view that exists.
ReaderViewRead ==
  /\ ar_pc = "parsed" /\ ar_res.tag = "ok" /\ ar_view.live # <<>>
  /\ \E len \in 1..MaxChunk :
       \E n \in (IF take_max(ar_buf, ar_view.live[1], len) = 0 THEN 0 ELSE 1)
                   ..take_max(ar_buf, ar_view.live[1], len) :
         ar_view' = [ar_view EXCEPT !.live = <<take_read(ar_buf, ar_view.live[1], n)>>]
  /\ UNCHANGED <<ar_kind, ar_buf, ar_gen, ar_base, ar_pc, ar_res, ar_read, arOthers>>

\* The view is dropped, read fully, partially or not at all: the borrow ends
\* and the source stays where the view left it.
ReaderDrop ==
  /\ ar_pc = "parsed" /\ ar_res.tag = "ok" /\ ar_view.live # <<>>
  /\ ar_view' = [inner |-> ar_view.live[1].pos, live |-> <<>>]
  /\ UNCHANGED <<ar_kind, ar_buf, ar_gen, ar_base, ar_pc, ar_res, ar_read, arOthers>>

ReaderNext == ReaderNew \/ ReaderReadFile \/ ReaderViewRead \/ ReaderDrop

SpecReader == ReaderInit /\ [][ReaderNext]_vars

\* The live view stands Len(got) bytes past position start, the bytes it has
\* delivered are the source bytes from start, and they are no more than size.
LiveViewDelivers(start, size) ==
  \A k \in 1..Len(ar_view.live) :
    LET got == ar_view.live[k].got
    IN  /\ ~NumLess(size, NumFromNat(Len(got)))
        /\ ar_view.live[k].pos = NumAdd(start, NumFromNat(Len(got))).sum
        /\ \/ got = <<>>
           \/ /\ NumIsSmall(start)
              /\ got = SubSeq(ar_buf, NumToNat(start) + 1, NumToNat(start) + Len(got))

ReaderCalled == ar_pc = "parsed" /\ ar_res.tag = "ok" /\ ar_read.tag # "none"

\* C29, as stated: over any sequence of read_file calls on one wrapper, each
\* view read fully, partially or not at all before it is dropped, the view
\* for entry e delivers the source bytes from data_offset + e.offset, at most
\* e.size of them, whatever calls came before and wherever they left the
\* stream; at most one view exists at a time; read_file never changes the
\* descriptor.
C29_ReadFileHistoryFree ==
  /\ [](ReaderCalled =>
          /\ ar_read.tag = "ok"
          /\ ~NumAdd(ar_res.data_offset, ReadOffset).overflow
          /\ LiveViewDelivers(NumAdd(ar_res.data_offset, ReadOffset).sum, ReadSize)
          /\ Len(ar_view.live) <= 1)
  /\ [][ar_pc = "parsed" => ar_res' = ar_res]_vars

\* What holds of every call, the overflowing ones included: unless the call
\* panicked, the view delivers the source bytes from the 64-bit sum
\* data_offset + e.offset, at most e.size of them, after any history; there
\* is at most one view; the descriptor stays as parsed.
C29_ViewFromSeekTarget ==
  /\ [](ReaderCalled =>
          /\ ar_read.tag = "ok" =>
               /\ ar_read.start = NumAdd(ar_res.data_offset, ReadOffset).sum
               /\ LiveViewDelivers(ar_read.start, ReadSize)
               /\ ar_view.live # <<>> => ar_view.live[1].limit
                                           = NumSub(ReadSize, NumFromNat(Len(ar_view.live[1].got)))
          /\ ar_read.tag = "panic" =>
               /\ NumAdd(ar_res.data_offset, ReadOffset).overflow
               /\ ar_view.live = <<>> /\ ar_view.inner = ar_read.left
          /\ Len(ar_view.live) <= 1)
  /\ [][ar_pc = "parsed" => ar_res' = ar_res]_vars

\* A third call, made after an earlier view was dropped partly read at a
\* position other than the entry's, whose view has delivered all of its bytes.
C29_AfterHistory ==
  /\ ReaderCalled /\ ar_read.tag = "ok" /\ ar_read.calls = 3
  /\ ar_read.left # ar_read.start
  /\ ar_view.live # <<>> /\ Len(ar_view.live[1].got) = 4
  /\ ar_view.live[1].limit = NumFromNat(0)

-----------------------------------------------------------------------------
(* read_compressed_blocks on a stream that ends inside a block or inside a  *)
(* length (SpecBlocks).                                                      *)

\* What the stream holds at the position of the loop: the bytes left, and
\* whether a full length stands there that is not zero and asks for more
\* bytes than follow it.
BlocksLeft == IF ar_res.pos >= Len(ar_buf) THEN 0 ELSE Len(ar_buf) - ar_res.pos

BodyCutShort ==
  /\ BlocksLeft >= 4
  /\ SubSeq(ar_buf, ar_res.pos + 1, ar_res.pos + 4) # <<0, 0, 0, 0>>
  /\ NumLess(NumFromNat(BlocksLeft - 4),
             as_u64(from_le_bytes(SubSeq(ar_buf, ar_res.pos + 1, ar_res.pos + 4))))

\* The turn that leaves the loop.
LastTurn == ar_kind = "blocks" /\ ar_pc = "loop" /\ ar_pc' = "done"

\* C30: in read_compressed_blocks a block body cut short is not the end of
\* the stream: when a length that is not zero was read in full and fewer
\* bytes than it says remain, the call returns an error and none of the
\* blocks read before it; a length cut short (fewer than four bytes left)
\* ends the enumeration with Ok and the blocks read so far.  An error is
\* returned in no other case, and a block is pushed only when its body is
\* there in full.
C30_TruncatedBodyIsError ==
  [][/\ LastTurn =>
          /\ (ar_res'.last = 4 /\ BodyCutShort) =>
                (ar_res'.tag = "err" /\ ar_res'.err = FromIoError /\ ar_res'.blocks = <<>>)
          /\ BlocksLeft < 4 => (ar_res'.tag = "ok" /\ ar_res'.blocks = ar_res.blocks)
          /\ ar_res'.tag = "err" => (ar_res'.last = 4 /\ BodyCutShort)
     /\ (ar_kind = "blocks" /\ ar_pc = "loop" /\ ar_pc' = "loop") => ~BodyCutShort]_vars

\* Two blocks were read, the third is cut short: an error and no block.
C30_Witness ==
  /\ ar_kind = "blocks" /\ ar_pc = "done" /\ ar_res.tag = "err" /\ ar_res.blocks = <<>>
  /\ ar_gen.shape = 3 /\ ar_res.last = 4
  /\ ar_res.pos = Len(ar_buf) - 2 /\ ar_res.pos - 4 >= ar_base + 10

\* Two blocks were read, then two bytes of a length: Ok and both blocks.
C30_WitnessShortLength ==
  /\ ar_kind = "blocks" /\ ar_pc = "done" /\ ar_res.tag = "ok" /\ Len(ar_res.blocks) = 2
  /\ ar_gen.shape = 2 /\ ar_res.last = 2 /\ ar_res.pos = Len(ar_buf) - 2

====
